---- MODULE Spec2Model ----
(***************************************************************************)
(* Model of the tool registry and of the model-driven orchestration loop   *)
(* of assistant_core.py: load_tools_from_directory, reload_tools,          *)
(* get_loaded_tools_info and process_command_with_llm_and_tools.           *)
(*                                                                         *)
(* One request thread runs process_command_with_llm_and_tools; one thread  *)
(* runs reload_tools; one thread runs get_loaded_tools_info.  What the     *)
(* tools directory holds when it is scanned is an input of each build.     *)
(* The import of the module itself (the discovery scan and the first       *)
(* build of the registry) is a specification of its own.                   *)
(***************************************************************************)
EXTENDS Naturals, Sequences, FiniteSets, TLC

VARIABLES
    loaded_tools_schemas,   \* module global, assistant_core.py:25
    loaded_tool_functions,  \* module global, assistant_core.py:26
    rpc, newRegistry, reloads,          \* the reload_tools() thread
    ipc, info,                          \* the get_loaded_tools_info() thread
    pc, callerHistory, messages, tool_calls, tcIdx, modelCalls, issued, result,
                                        \* the request thread
    events,                 \* what the request did to its collaborators, in order
    directory,              \* what os.listdir finds in tools/ at import
    tool_modules_to_load,   \* module global, assistant_core.py:57
    mpc,                    \* how far the import of assistant_core has come
    lists, dicts,           \* the list and dict objects of the registry, by identity
    schemasRef, functionsRef,   \* the objects the two globals are bound to
    build,                  \* the running load_tools_from_directory / reload_tools
    published,              \* every object a global was bound to, as it was then
    msgLists,               \* the message-list objects of the requests, by identity
    req,                    \* the requests of two concurrent threads
    session,                \* st.session_state.messages
    current_process,        \* st.session_state.current_process
    app,                    \* the script run that handles one user input
    voice_recognition_active,   \* st.session_state.voice_recognition_active
    voice_thread,           \* st.session_state.voice_thread: a thread, or 0 for None
    text_input,             \* st.session_state.text_input
    listeners,              \* where each voice-listener thread is
    script,                 \* the script thread's call into VoiceManager
    session_state,          \* st.session_state: the keys it has and their values
    now,                    \* what datetime.now() returns
    last,                   \* the last SessionManager call and the state it found
    TOOL_SCHEMAS,           \* planning_tool's list of schemas
    TOOL_MAP,               \* planning_tool's mapping from names to values
    validated               \* what validate_tool_interface returned, if called

vars == <<loaded_tools_schemas, loaded_tool_functions,
          rpc, newRegistry, reloads, ipc, info,
          pc, callerHistory, messages, tool_calls, tcIdx, modelCalls, issued,
          result, events, directory, tool_modules_to_load, mpc,
          lists, dicts, schemasRef, functionsRef, build, published,
          msgLists, req, session, current_process, app,
          voice_recognition_active, voice_thread, text_input, listeners, script,
          session_state, now, last, TOOL_SCHEMAS, TOOL_MAP, validated>>

registryVars == <<loaded_tools_schemas, loaded_tool_functions>>
reloadVars   == <<rpc, newRegistry, reloads>>
infoVars     == <<ipc, info>>
requestVars  == <<pc, callerHistory, messages, tool_calls, tcIdx, modelCalls,
                  issued, result, events>>
importVars   == <<directory, tool_modules_to_load, mpc>>
coreVars     == <<registryVars, reloadVars, infoVars, requestVars, importVars>>
objVars      == <<lists, dicts, schemasRef, functionsRef, build, published>>
twoVars      == <<msgLists, req>>
appVars      == <<session, current_process, app>>
voiceVars    == <<voice_recognition_active, voice_thread, text_input, listeners, script>>
sessVars     == <<session_state, now, last>>
planVars     == <<TOOL_SCHEMAS, TOOL_MAP, validated>>
extVars      == <<objVars, twoVars, appVars, voiceVars, sessVars, planVars>>
exceptObj    == <<coreVars, twoVars, appVars, voiceVars, sessVars, planVars>>
exceptTwo    == <<coreVars, objVars, appVars, voiceVars, sessVars, planVars>>
exceptApp    == <<coreVars, objVars, twoVars, voiceVars, sessVars, planVars>>
exceptVoice  == <<coreVars, objVars, twoVars, appVars, sessVars, planVars>>
exceptSess   == <<coreVars, objVars, twoVars, appVars, voiceVars, planVars>>
exceptPlan   == <<coreVars, objVars, twoVars, appVars, voiceVars, sessVars>>

(***************************************************************************)
(* Bounds of the model.                                                    *)
(***************************************************************************)
MaxCalls   == 2    \* tool calls the model issues in one request, over all turns
MaxReloads == 1    \* reload_tools() calls
MaxEntries == 3    \* entries of the tools directory at import

None == "None"       \* Python's None

(***************************************************************************)
(* The tools directory.  An entry is a directory entry with what its       *)
(* core.py defines: TOOL_SCHEMAS (a list of schemas: the function name and *)
(* the rest of the schema, which is the module's own text) and TOOL_MAP    *)
(* (tool name -> callable; a callable is named by the module that defines  *)
(* it).  raises: executing core.py raises.                                 *)
(***************************************************************************)
Schema(name, module) == [name |-> name, module |-> module]

Entry(name, isdir, core, hasS, schemas, hasM, mapKeys) ==
    [name |-> name, isdir |-> isdir, hasCore |-> core, raises |-> FALSE,
     hasSchemas |-> hasS,
     TOOL_SCHEMAS |-> [i \in DOMAIN schemas |-> Schema(schemas[i], name)],
     hasMap |-> hasM, TOOL_MAP |-> [k \in mapKeys |-> name]]

ImportFails(entry) == [entry EXCEPT !.raises = TRUE]

VoiceTool == Entry("voice_tool", TRUE, TRUE, TRUE, <<"speak_text">>, TRUE, {"speak_text"})
WebTool   == Entry("web_tool", TRUE, TRUE, TRUE, <<"search_web">>, TRUE, {"search_web"})
MailTool  == Entry("mail_tool", TRUE, TRUE, TRUE, <<"send_mail">>, TRUE, {"send_mail"})
NotionTool == Entry("notion_tool", TRUE, TRUE, TRUE, <<"create_page">>, TRUE, {"create_page"})
Template  == Entry("tool_template", TRUE, TRUE, TRUE, <<"example">>, TRUE, {"example"})
PyCache   == Entry("__pycache__", TRUE, FALSE, FALSE, <<>>, FALSE, {})

\* a module without TOOL_SCHEMAS, one without TOOL_MAP
CalendarTool == Entry("calendar_tool", TRUE, TRUE, FALSE, <<>>, TRUE, {"add_event"})
ChartTool == Entry("chart_tool", TRUE, TRUE, TRUE, <<"draw_chart">>, FALSE, {})
\* a schema without a callable, a callable without a schema
CrmTool == Entry("crm_tool", TRUE, TRUE, TRUE, <<"find_lead", "add_lead">>, TRUE,
                 {"find_lead"})
WikiTool == Entry("wiki_tool", TRUE, TRUE, TRUE, <<"read_wiki">>, TRUE,
                  {"read_wiki", "edit_wiki"})
\* a second module that declares search_web
ResearchTool == Entry("research_tool", TRUE, TRUE, TRUE, <<"search_web">>, TRUE,
                      {"search_web"})
\* a module whose core.py raises when it is executed
BrokenTool == ImportFails(Entry("broken_tool", TRUE, TRUE, TRUE, <<"fix">>, TRUE,
                                {"fix"}))
\* a plain file, and a directory with an internal name that holds a core.py
ReadmeFile == Entry("README.md", FALSE, FALSE, FALSE, <<>>, FALSE, {})
InternalTool == Entry("__internal", TRUE, TRUE, TRUE, <<"debug">>, TRUE, {"debug"})

DirListings ==
    { <<PyCache, VoiceTool, WebTool, Template>>,
      <<PyCache, WebTool, MailTool, NotionTool>> }

DirEntries ==
    { VoiceTool, WebTool, MailTool, NotionTool, Template, PyCache, CalendarTool,
      ChartTool, CrmTool, WikiTool, ResearchTool, BrokenTool, ReadmeFile,
      InternalTool }

\* os.listdir: at most n entries, no name twice, in arbitrary order
Listings(n) ==
    { l \in UNION { [1..k -> DirEntries] : k \in 0..n } :
        \A i, j \in DOMAIN l : l[i] = l[j] => i = j }

\* str.startswith('__'), line 64
StartsWithDunder(name) == name \in { "__pycache__", "__internal" }

\* one iteration of the scan of lines 61-73
ScanEntry(found, entry) ==
    IF entry.isdir /\ ~StartsWithDunder(entry.name)
       /\ entry.name # "tool_template" /\ entry.hasCore
    THEN Append(found, entry.name \o ".core")
    ELSE found

RECURSIVE ScanFrom(_, _)
ScanFrom(found, listing) ==
    IF listing = <<>> THEN found
    ELSE ScanFrom(ScanEntry(found, Head(listing)), Tail(listing))

\* assistant_core.py:49-53 (the default validator; tool_interface.py is absent)
validate_tool_module(module) == module.hasSchemas /\ module.hasMap

exclude_dirs == {"__pycache__", "tool_template"}

\* dict.update: the later module's callables replace earlier ones
DictUpdate(d, e) ==
    [k \in (DOMAIN d) \cup (DOMAIN e) |-> IF k \in DOMAIN e THEN e[k] ELSE d[k]]

\* lines 99-101: the entries the build tries to import
IsCandidate(entry) ==
    entry.isdir /\ entry.name \notin exclude_dirs /\ entry.hasCore

\* LoadEntry without line 117: the module's callables are not registered
LoadEntry_SchemasOnly(acc, entry) ==
    IF IsCandidate(entry) /\ ~entry.raises /\ validate_tool_module(entry)
    THEN [schemas   |-> acc.schemas \o entry.TOOL_SCHEMAS,
          functions |-> acc.functions]
    ELSE acc

\* LoadEntry with the try around the whole loop: a failing import ends the
\* build with nothing loaded so far
LoadEntry_FailureDiscards(acc, entry) ==
    IF IsCandidate(entry) /\ entry.raises
    THEN [schemas |-> <<>>, functions |-> <<>>]
    ELSE IF IsCandidate(entry) /\ validate_tool_module(entry)
         THEN [schemas   |-> acc.schemas \o entry.TOOL_SCHEMAS,
               functions |-> DictUpdate(acc.functions, entry.TOOL_MAP)]
         ELSE acc

\* one iteration of the for loop of load_tools_from_directory, lines 97-124:
\* an exception of the import is caught at line 122
LoadEntry(acc, entry) ==
    IF IsCandidate(entry) /\ ~entry.raises /\ validate_tool_module(entry)
    THEN [schemas   |-> acc.schemas \o entry.TOOL_SCHEMAS,
          functions |-> DictUpdate(acc.functions, entry.TOOL_MAP)]
    ELSE acc

RECURSIVE LoadFrom(_, _)
LoadFrom(acc, listing) ==
    IF listing = <<>> THEN acc
    ELSE LoadFrom(LoadEntry(acc, Head(listing)), Tail(listing))

\* assistant_core.py:80-127
load_tools_from_directory(listing) ==
    LoadFrom([schemas |-> <<>>, functions |-> <<>>], listing)

(***************************************************************************)
(* Python values the orchestrator handles.                                 *)
(***************************************************************************)
TerminalTool == "speak_text"                  \* assistant_core.py:251
ToolNames    == {"speak_text", "search_web", "send_mail"}

\* tool_call.function.arguments: the raw JSON text the model produced
TerminalPayloads ==
    { "{bad", "[]", "{text:hi}", "{text:hi,detailed_text:}",
      "{text:hi,detailed_text:more}", "{detailed_text:more}" }
ToolPayloads == { "{bad", "[]", "{}" }
Payloads     == TerminalPayloads \cup ToolPayloads

\* the payloads the model is taken to send to each tool
PayloadsOf(name) ==
    CASE name = TerminalTool -> TerminalPayloads
      [] name = "send_mail"  -> { "{}" }
      [] OTHER               -> ToolPayloads

\* json.loads, line 248: raises on malformed text, else the decoded value
JsonLoads(p) ==
    CASE p = "{bad" -> [ok |-> FALSE, isDict |-> FALSE, val |-> <<>>]
      [] p = "[]"   -> [ok |-> TRUE, isDict |-> FALSE, val |-> <<>>]
      [] p = "{}"   -> [ok |-> TRUE, isDict |-> TRUE, val |-> <<>>]
      [] p = "{text:hi}" ->
            [ok |-> TRUE, isDict |-> TRUE, val |-> [text |-> "hi"]]
      [] p = "{text:hi,detailed_text:}" ->
            [ok |-> TRUE, isDict |-> TRUE,
             val |-> [text |-> "hi", detailed_text |-> ""]]
      [] p = "{text:hi,detailed_text:more}" ->
            [ok |-> TRUE, isDict |-> TRUE,
             val |-> [text |-> "hi", detailed_text |-> "more"]]
      [] p = "{detailed_text:more}" ->
            [ok |-> TRUE, isDict |-> TRUE, val |-> [detailed_text |-> "more"]]

\* dict.get(key, default)
DictGet(d, key, default) == IF key \in DOMAIN d THEN d[key] ELSE default

\* what a registered non-terminal callable may return, and str() of it
ToolResults == { None, "int:42" }
PyStr(v) == CASE v = None -> "None" [] v = "int:42" -> "42" [] OTHER -> v

\* what the terminal callable may return: bytes, empty bytes, None, or an
\* object that is true but has no len()
AudioValues == { "bytes:RIFF", "bytes:", None, "int:1" }
Truthy(a)   == a \notin { None, "bytes:", "" }
HasLen(a)   == a \in { "bytes:RIFF", "bytes:" }

ToolErrors     == { "boom" }                  \* str(e) of a callable's exception
ProviderErrors == { "provider down" }         \* str(e) of a provider exception
ModelTexts     == { "final answer" }          \* response_message.content
NotCallable    == "'NoneType' object is not callable"
NotMapping     == "argument after ** must be a mapping, not list"
NoGetAttr      == "'list' object has no attribute 'get'"
JsonError      == "Expecting property name enclosed in double quotes"

(***************************************************************************)
(* Messages and responses.                                                 *)
(***************************************************************************)
Msg(role, content) ==
    [role |-> role, content |-> content, name |-> None,
     tool_call_id |-> <<>>, tool_calls |-> <<>>]

\* response_message of a turn with tool calls, appended at line 243
ToolCallTurn(calls) ==
    [role |-> "assistant", content |-> None, name |-> None,
     tool_call_id |-> <<>>, tool_calls |-> calls]

\* ToolMessage without the id of the call it answers
ToolMessage_NoCallId(tc, content) ==
    [role |-> "tool", content |-> content, name |-> tc.name,
     tool_call_id |-> <<>>, tool_calls |-> <<>>]

\* lines 291-296 and 300-305
ToolMessage(tc, content) ==
    [role |-> "tool", content |-> content, name |-> tc.name,
     tool_call_id |-> tc.id, tool_calls |-> <<>>]

\* line 295
ToolResultContent(r) == PyStr(r)
\* line 304: the prefix stands for the source's Korean "error occurred: "
ToolErrorContent(e) == "ERROR: " \o e

system_prompt == "SYSTEM_PROMPT"              \* lines 147-220

RECURSIVE NonSystem(_)
NonSystem(h) ==
    IF h = <<>> THEN <<>>
    ELSE IF Head(h).role # "system" THEN <<Head(h)>> \o NonSystem(Tail(h))
         ELSE NonSystem(Tail(h))

\* SeedMessages without the filter of line 225
SeedMessages_KeepsSystem(command_text, conversation_history) ==
    (<<Msg("system", system_prompt)>> \o conversation_history)
        \o <<Msg("user", command_text)>>

\* lines 223-227
SeedMessages(command_text, conversation_history) ==
    (<<Msg("system", system_prompt)>> \o NonSystem(conversation_history))
        \o <<Msg("user", command_text)>>

NoResult == [status |-> "none"]
\* line 144
EmptyCommandResponse == [status |-> "error", response |-> "NO_COMMAND"]
\* lines 318-321: the prefix stands for the source's Korean text
ErrorResponse(e) == [status |-> "error", response |-> "PROCESSING_ERROR: " \o e]
\* TextFallback with the key of the error response for the text
TextFallback_ResponseKey(t) ==
    [status |-> "success", response_type |-> "text_fallback", response |-> t]

\* lines 310-314 and 277-281
TextFallback(t) ==
    [status |-> "success", response_type |-> "text_fallback", text_content |-> t]
\* AudioResponse with the two texts exchanged
AudioResponse_TextsSwapped(v, d, a) ==
    [status |-> "success", response_type |-> "audio_response",
     voice_text |-> d, detailed_text |-> v, audio_content |-> a]

\* lines 267-273
AudioResponse(v, d, a) ==
    [status |-> "success", response_type |-> "audio_response",
     voice_text |-> v, detailed_text |-> d, audio_content |-> a]

\* line 254
VoiceText(args) == DictGet(args, "text", "")

\* DetailedText without the fallback of lines 258-259
DetailedText_NoFallback(args) == DictGet(args, "detailed_text", "")

\* lines 255-259
DetailedText(args) ==
    LET d == DictGet(args, "detailed_text", "")
    IN  IF d = "" THEN VoiceText(args) ELSE d
\* line 280: detailed_text or voice_text
FallbackText(args) ==
    IF DetailedText(args) # "" THEN DetailedText(args) ELSE VoiceText(args)

(***************************************************************************)
(* Inputs of a request.                                                    *)
(***************************************************************************)
CommandTexts == { "", "hello" }
Histories ==
    { <<Msg("system", "old prompt"), Msg("user", "q0"), Msg("assistant", "a0")>> }

ValidShapes == { <<n, p>> \in ToolNames \X Payloads : p \in PayloadsOf(n) }

\* a tool call of the model's turn: tool_call.id, .function.name, .function.arguments
ToolCall(turn, i, shape) ==
    [id |-> <<turn, i>>, name |-> shape[1], arguments |-> shape[2]]

\* response_message.tool_calls of the turn-th model call: at most maxLen calls
Batches(turn, maxLen) ==
    UNION { { [i \in 1..n |-> ToolCall(turn, i, f[i])] : f \in [1..n -> ValidShapes] }
            : n \in 1..maxLen }

(***************************************************************************)
(* The record of what the request did: the registry it found when it       *)
(* started, every call of the model provider with the messages and tool    *)
(* schemas passed and what it answered, and every tool call of a batch it  *)
(* handled.                                                                *)
(***************************************************************************)
NoCall == [id |-> <<>>, name |-> None, arguments |-> ""]

StartEvent(schemas, functions) ==
    [kind |-> "start", messages |-> <<>>, tools |-> schemas,
     functions |-> functions, call |-> NoCall, invoked |-> FALSE,
     outcome |-> "started", value |-> None]

\* lines 232-237: messages=messages, tools=loaded_tools_schemas
ModelEvent(msgs, schemas, outcome, value) ==
    [kind |-> "model", messages |-> msgs, tools |-> schemas,
     functions |-> <<>>, call |-> NoCall, invoked |-> FALSE,
     outcome |-> outcome, value |-> value]

\* lines 246-248, 263, 287: the map looked up, whether a callable ran, and
\* what it returned or the text of what was raised
ToolEvent(tc, functions, invoked, outcome, value) ==
    [kind |-> "tool", messages |-> <<>>, tools |-> <<>>,
     functions |-> functions, call |-> tc, invoked |-> invoked,
     outcome |-> outcome, value |-> value]

\* reload_tools is not between its build and its stores
NoRegistry == [schemas |-> <<>>, functions |-> <<>>]

\* no build of the registry is running
NoBuild == [pc |-> "idle", listing |-> <<>>, i |-> 0, all_schemas |-> 0,
            all_tool_maps |-> 0]

\* the registry objects as the import leaves them: the globals are bound to
\* the list and the dict that load_tools_from_directory returned (line 129)
ObjInit ==
    \E listing \in DirListings :
        /\ lists = <<load_tools_from_directory(listing).schemas>>
        /\ dicts = <<load_tools_from_directory(listing).functions>>
        /\ schemasRef = 1 /\ functionsRef = 1
        /\ build = NoBuild
        /\ published = [schemas   |-> [r \in {1} |-> lists[1]],
                        functions |-> [r \in {1} |-> dicts[1]]]

\* the variables of the other specifications, at rest
ObjIdle ==
    /\ lists = <<>> /\ dicts = <<>> /\ schemasRef = 0 /\ functionsRef = 0
    /\ build = NoBuild
    /\ published = [schemas |-> <<>>, functions |-> <<>>]

Requests == {1, 2}

\* a thread that has not called process_command_with_llm_and_tools yet
IdleRequest ==
    [pc |-> "idle", history |-> 0, given |-> <<>>, messages |-> 0,
     tool_calls |-> <<>>, tcIdx |-> 0, issued |-> 0,
     turns |-> 0, appended |-> <<>>, sent |-> <<>>, result |-> NoResult]

TwoIdle == msgLists = <<>> /\ req = [r \in Requests |-> IdleRequest]

Flows == { "main", "service", "app_py" }

\* current_process = None, where a process status is held otherwise
NoProcess == [type |-> "None"]

\* app/session_manager.py 33-66 and app.py 40-65: the system prompt and the
\* greeting, stored with role and content
InitialMessages ==
    << [role |-> "system", content |-> "session prompt"],
       [role |-> "assistant", content |-> "greeting"] >>

\* no input is being handled
IdleApp(flow) ==
    [pc |-> "idle", flow |-> flow, text |-> "", prior |-> 0, history |-> <<>>,
     first_call |-> <<>>, response |-> NoResult, processed |-> NoResult,
     returned |-> NoResult, error |-> "", inputs |-> 0]

AppInit ==
    /\ session = InitialMessages
    /\ current_process = NoProcess
    /\ app \in { IdleApp(f) : f \in Flows }

AppIdle ==
    /\ session = InitialMessages
    /\ current_process = NoProcess
    /\ app = IdleApp("main")

MaxThreads == 2        \* voice-listener threads created in one session
Threads == 1..MaxThreads

\* the script thread is in no VoiceManager call
IdleScript == [pc |-> "idle", by |-> "none", owed |-> FALSE, spawned |-> FALSE,
               cleared |-> FALSE]

\* app/session_manager.py 68-90
VoiceInit ==
    /\ voice_recognition_active = FALSE
    /\ voice_thread = 0
    /\ text_input = ""
    /\ listeners = [t \in Threads |-> "unborn"]
    /\ script = IdleScript

\* a browser session that no script has run in yet
NoKeys == [k \in {} |-> None]
NoSessionCall == [op |-> "none", before |-> NoKeys, at |-> 0]
SessInit ==
    /\ session_state = NoKeys
    /\ now = 0
    /\ last = NoSessionCall

\* a planning_tool that declares nothing
PlanIdle ==
    /\ TOOL_SCHEMAS = << >>
    /\ TOOL_MAP = NoKeys
    /\ validated = << >>

ExtIdle == ObjIdle /\ TwoIdle /\ AppIdle /\ VoiceInit /\ SessInit /\ PlanIdle

(***************************************************************************)
(* Initial state: the module has been imported (line 129).                 *)
(***************************************************************************)
CoreInit ==
    /\ \E listing \in DirListings :
          /\ directory = listing
          /\ tool_modules_to_load = ScanFrom(<<>>, listing)
          /\ loaded_tools_schemas = load_tools_from_directory(listing).schemas
          /\ loaded_tool_functions = load_tools_from_directory(listing).functions
    /\ mpc = "ready"
    /\ rpc = "idle" /\ newRegistry = NoRegistry /\ reloads = 0
    /\ ipc = 0
    /\ info = [schemas_count |-> 0, functions_count |-> 0,
               available_functions |-> {}, schemas |-> <<>>]
    /\ pc = "idle" /\ callerHistory = <<>> /\ messages = <<>>
    /\ tool_calls = <<>> /\ tcIdx = 0 /\ modelCalls = 0 /\ issued = 0
    /\ result = NoResult
    /\ events = <<>>

Init == CoreInit /\ ExtIdle

(***************************************************************************)
(* reload_tools(), lines 337-346.  The right-hand side is evaluated, then  *)
(* the two globals are stored one after the other.                         *)
(***************************************************************************)
ReloadBuild(listing) ==
    /\ rpc = "idle" /\ reloads < MaxReloads
    /\ newRegistry' = load_tools_from_directory(listing)
    /\ rpc' = "store_schemas"
    /\ reloads' = reloads + 1
    /\ UNCHANGED <<registryVars, infoVars, requestVars, importVars, extVars>>

ReloadStoreSchemas ==
    /\ rpc = "store_schemas"
    /\ loaded_tools_schemas' = newRegistry.schemas
    /\ rpc' = "store_functions"
    /\ UNCHANGED <<loaded_tool_functions, newRegistry, reloads, infoVars,
                   requestVars, importVars, extVars>>

ReloadStoreFunctions ==
    /\ rpc = "store_functions"
    /\ loaded_tool_functions' = newRegistry.functions
    /\ rpc' = "idle" /\ newRegistry' = NoRegistry
    /\ UNCHANGED <<loaded_tools_schemas, reloads, infoVars, requestVars, importVars, extVars>>

(***************************************************************************)
(* get_loaded_tools_info(), lines 323-335: four reads of the globals; at   *)
(* ipc = 4 the call has returned info, and it may be called again.         *)
(***************************************************************************)
InfoReadSchemasCount ==
    /\ ipc \in {0, 4}
    /\ info' = [schemas_count |-> Len(loaded_tools_schemas), functions_count |-> 0,
                available_functions |-> {}, schemas |-> <<>>]
    /\ ipc' = 1
    /\ UNCHANGED <<registryVars, reloadVars, requestVars, importVars, extVars>>

InfoReadFunctionsCount ==
    /\ ipc = 1
    /\ info' = [info EXCEPT !.functions_count =
                                Cardinality(DOMAIN loaded_tool_functions)]
    /\ ipc' = 2
    /\ UNCHANGED <<registryVars, reloadVars, requestVars, importVars, extVars>>

InfoReadFunctionNames ==
    /\ ipc = 2
    /\ info' = [info EXCEPT !.available_functions = DOMAIN loaded_tool_functions]
    /\ ipc' = 3
    /\ UNCHANGED <<registryVars, reloadVars, requestVars, importVars, extVars>>

InfoReadSchemas ==
    /\ ipc = 3
    /\ info' = [info EXCEPT !.schemas = loaded_tools_schemas]
    /\ ipc' = 4
    /\ UNCHANGED <<registryVars, reloadVars, requestVars, importVars, extVars>>

(***************************************************************************)
(* process_command_with_llm_and_tools, lines 132-321.                      *)
(***************************************************************************)
\* StartEmpty without the return of line 144: the request goes on to the
\* loop with the empty text
StartEmpty_GoesOn(conversation_history) ==
    /\ pc = "idle"
    /\ callerHistory' = conversation_history
    /\ messages' = SeedMessages("", conversation_history)
    /\ pc' = "model"
    /\ events' = Append(events, StartEvent(loaded_tools_schemas, loaded_tool_functions))
    /\ UNCHANGED <<tool_calls, tcIdx, modelCalls, issued, result>>
    /\ UNCHANGED <<registryVars, reloadVars, infoVars, importVars, extVars>>

\* lines 143-144
StartEmpty(conversation_history) ==
    /\ pc = "idle"
    /\ callerHistory' = conversation_history
    /\ result' = EmptyCommandResponse
    /\ pc' = "done"
    /\ events' = Append(events, StartEvent(loaded_tools_schemas, loaded_tool_functions))
    /\ UNCHANGED <<messages, tool_calls, tcIdx, modelCalls, issued>>
    /\ UNCHANGED <<registryVars, reloadVars, infoVars, importVars, extVars>>

\* lines 222-227
Start(command_text, conversation_history) ==
    /\ pc = "idle" /\ command_text # ""
    /\ callerHistory' = conversation_history
    /\ messages' = SeedMessages(command_text, conversation_history)
    /\ pc' = "model"
    /\ events' = Append(events,
                        [StartEvent(loaded_tools_schemas, loaded_tool_functions)
                            EXCEPT !.value = command_text])
    /\ UNCHANGED <<tool_calls, tcIdx, modelCalls, issued, result>>
    /\ UNCHANGED <<registryVars, reloadVars, infoVars, importVars, extVars>>

\* ModelRaises with a retry: the loop calls the provider again
ModelRaises_Retries(e) ==
    /\ pc = "model"
    /\ events' = Append(events, ModelEvent(messages, loaded_tools_schemas, "raised", e))
    /\ modelCalls' = modelCalls + 1
    /\ UNCHANGED <<pc, result, callerHistory, messages, tool_calls, tcIdx, issued>>
    /\ UNCHANGED <<registryVars, reloadVars, infoVars, importVars, extVars>>

\* lines 232-237 raise; lines 316-321
ModelRaises(e) ==
    /\ pc = "model"
    /\ events' = Append(events, ModelEvent(messages, loaded_tools_schemas, "raised", e))
    /\ result' = ErrorResponse(e)
    /\ pc' = "done"
    /\ modelCalls' = modelCalls + 1
    /\ UNCHANGED <<callerHistory, messages, tool_calls, tcIdx, issued>>
    /\ UNCHANGED <<registryVars, reloadVars, infoVars, importVars, extVars>>

\* lines 232-240, 307-314: a turn without tool calls
ModelAnswers(text) ==
    /\ pc = "model"
    /\ events' = Append(events, ModelEvent(messages, loaded_tools_schemas, "text", text))
    /\ result' = TextFallback(text)
    /\ pc' = "done"
    /\ modelCalls' = modelCalls + 1
    /\ UNCHANGED <<callerHistory, messages, tool_calls, tcIdx, issued>>
    /\ UNCHANGED <<registryVars, reloadVars, infoVars, importVars, extVars>>

\* lines 232-243: a turn with tool calls
ModelRequestsTools(batch) ==
    /\ pc = "model" /\ issued + Len(batch) <= MaxCalls
    /\ events' = Append(events, ModelEvent(messages, loaded_tools_schemas,
                                           "tool_calls", None))
    /\ messages' = Append(messages, ToolCallTurn(batch))
    /\ tool_calls' = batch
    /\ tcIdx' = 1
    /\ modelCalls' = modelCalls + 1
    /\ issued' = issued + Len(batch)
    /\ pc' = "batch"
    /\ UNCHANGED <<callerHistory, result>>
    /\ UNCHANGED <<registryVars, reloadVars, infoVars, importVars, extVars>>

\* the call the for loop of line 245 is at
tool_call == tool_calls[tcIdx]
\* line 247: loaded_tool_functions.get(function_name)
function_to_call ==
    IF tool_call.name \in DOMAIN loaded_tool_functions
    THEN loaded_tool_functions[tool_call.name] ELSE None
\* line 248
function_args == JsonLoads(tool_call.arguments)

\* the request returns from inside the loop
Return(response, invoked, outcome, value) ==
    /\ result' = response
    /\ pc' = "done"
    /\ events' = Append(events,
                        ToolEvent(tool_call, loaded_tool_functions, invoked, outcome,
                                  value))
    /\ UNCHANGED <<callerHistory, messages, tool_calls, tcIdx, modelCalls, issued>>
    /\ UNCHANGED <<registryVars, reloadVars, infoVars, importVars, extVars>>

\* Continue with an assignment in place of the append: the tool message
\* takes the place of the last message of the history
Continue_Overwrites(content, invoked, outcome, value) ==
    /\ messages' = [messages EXCEPT ![Len(messages)] = ToolMessage(tool_call, content)]
    /\ tcIdx' = tcIdx + 1
    /\ pc' = IF tcIdx + 1 > Len(tool_calls) THEN "model" ELSE "batch"
    /\ events' = Append(events,
                        ToolEvent(tool_call, loaded_tool_functions, invoked, outcome,
                                  value))
    /\ UNCHANGED <<callerHistory, tool_calls, modelCalls, issued, result>>
    /\ UNCHANGED <<registryVars, reloadVars, infoVars, importVars, extVars>>

\* a tool message is appended and the for loop goes on (back to line 230
\* after the last call)
Continue(content, invoked, outcome, value) ==
    /\ messages' = Append(messages, ToolMessage(tool_call, content))
    /\ tcIdx' = tcIdx + 1
    /\ pc' = IF tcIdx + 1 > Len(tool_calls) THEN "model" ELSE "batch"
    /\ events' = Append(events,
                        ToolEvent(tool_call, loaded_tool_functions, invoked, outcome,
                                  value))
    /\ UNCHANGED <<callerHistory, tool_calls, modelCalls, issued, result>>
    /\ UNCHANGED <<registryVars, reloadVars, infoVars, importVars, extVars>>

\* line 248 raises: caught at line 316
ArgumentsUndecodable ==
    /\ pc = "batch" /\ ~function_args.ok
    /\ Return(ErrorResponse(JsonError), FALSE, "decode_error", JsonError)

\* line 252: function_args.get on a value that is no dict, caught at line 316
TerminalArgsNotDict ==
    /\ pc = "batch" /\ tool_call.name = TerminalTool
    /\ function_args.ok /\ ~function_args.isDict
    /\ Return(ErrorResponse(NoGetAttr), FALSE, "args_error", NoGetAttr)

\* TerminalSpeaks without the return of line 267: the call is handled like
\* any other tool call
TerminalSpeaks_NoReturn(audio_content) ==
    /\ pc = "batch" /\ tool_call.name = TerminalTool
    /\ function_args.ok /\ function_args.isDict
    /\ function_to_call # None
    /\ Truthy(audio_content) => HasLen(audio_content)
    /\ Continue(ToolResultContent(audio_content), TRUE, "returned", audio_content)

\* lines 251-273
TerminalSpeaks(audio_content) ==
    /\ pc = "batch" /\ tool_call.name = TerminalTool
    /\ function_args.ok /\ function_args.isDict
    /\ function_to_call # None
    /\ Truthy(audio_content) => HasLen(audio_content)
    /\ Return(AudioResponse(VoiceText(function_args.val),
                            DetailedText(function_args.val), audio_content),
              TRUE, "returned", audio_content)

\* lines 262-264, 274-281: the callable returned a true value without len()
TerminalAudioUnsized(audio_content) ==
    /\ pc = "batch" /\ tool_call.name = TerminalTool
    /\ function_args.ok /\ function_args.isDict
    /\ function_to_call # None
    /\ Truthy(audio_content) /\ ~HasLen(audio_content)
    /\ Return(TextFallback(FallbackText(function_args.val)), TRUE, "returned",
              audio_content)

\* TerminalRaises without the try of line 262: the exception reaches line 316
TerminalRaises_Propagates(e) ==
    /\ pc = "batch" /\ tool_call.name = TerminalTool
    /\ function_args.ok /\ function_args.isDict
    /\ function_to_call # None
    /\ Return(ErrorResponse(e), TRUE, "raised", e)

\* lines 262-263, 274-281: the callable raised
TerminalRaises(e) ==
    /\ pc = "batch" /\ tool_call.name = TerminalTool
    /\ function_args.ok /\ function_args.isDict
    /\ function_to_call # None
    /\ Return(TextFallback(FallbackText(function_args.val)), TRUE, "raised", e)

\* lines 262-263, 274-281: None(**function_args) raises TypeError
TerminalNotCallable ==
    /\ pc = "batch" /\ tool_call.name = TerminalTool
    /\ function_args.ok /\ function_args.isDict
    /\ function_to_call = None
    /\ Return(TextFallback(FallbackText(function_args.val)), FALSE, "not_callable",
              NotCallable)

\* lines 284-296
ToolReturns(function_response) ==
    /\ pc = "batch" /\ tool_call.name # TerminalTool
    /\ function_args.ok /\ function_args.isDict
    /\ function_to_call # None
    /\ Continue(ToolResultContent(function_response), TRUE, "returned",
                function_response)

\* ToolRaises without the try of line 286: the exception reaches line 316
ToolRaises_Propagates(e) ==
    /\ pc = "batch" /\ tool_call.name # TerminalTool
    /\ function_args.ok /\ function_args.isDict
    /\ function_to_call # None
    /\ Return(ErrorResponse(e), TRUE, "raised", e)

\* lines 286-287, 297-305: the callable raised
ToolRaises(e) ==
    /\ pc = "batch" /\ tool_call.name # TerminalTool
    /\ function_args.ok /\ function_args.isDict
    /\ function_to_call # None
    /\ Continue(ToolErrorContent(e), TRUE, "raised", e)

\* ToolNotCallable without the try of line 286: the TypeError reaches line 316
ToolNotCallable_Propagates ==
    /\ pc = "batch" /\ tool_call.name # TerminalTool
    /\ function_args.ok /\ function_args.isDict
    /\ function_to_call = None
    /\ Return(ErrorResponse(NotCallable), FALSE, "not_callable", NotCallable)

\* lines 286-287, 297-305: None(**function_args) raises TypeError
ToolNotCallable ==
    /\ pc = "batch" /\ tool_call.name # TerminalTool
    /\ function_args.ok /\ function_args.isDict
    /\ function_to_call = None
    /\ Continue(ToolErrorContent(NotCallable), FALSE, "not_callable", NotCallable)

\* lines 286-287, 297-305: **function_args on a value that is no mapping
ToolArgsNotMapping ==
    /\ pc = "batch" /\ tool_call.name # TerminalTool
    /\ function_args.ok /\ ~function_args.isDict
    /\ Continue(ToolErrorContent(NotMapping), FALSE, "args_error", NotMapping)

(***************************************************************************)
(* The import of assistant_core: the globals are created empty (lines      *)
(* 25-26, 57), the tools directory is scanned (lines 59-73), then the      *)
(* registry is built (line 129).                                           *)
(***************************************************************************)
InitImport ==
    /\ directory \in Listings(MaxEntries)
    /\ tool_modules_to_load = <<>>
    /\ loaded_tools_schemas = <<>> /\ loaded_tool_functions = <<>>
    /\ mpc = "scan"
    /\ rpc = "idle" /\ newRegistry = NoRegistry /\ reloads = 0
    /\ ipc = 0
    /\ info = [schemas_count |-> 0, functions_count |-> 0,
               available_functions |-> {}, schemas |-> <<>>]
    /\ pc = "idle" /\ callerHistory = <<>> /\ messages = <<>>
    /\ tool_calls = <<>> /\ tcIdx = 0 /\ modelCalls = 0 /\ issued = 0
    /\ result = NoResult
    /\ events = <<>>
    /\ ExtIdle

\* lines 59-73
DiscoveryScan ==
    /\ mpc = "scan"
    /\ tool_modules_to_load' = ScanFrom(<<>>, directory)
    /\ mpc' = "load"
    /\ UNCHANGED <<registryVars, reloadVars, infoVars, requestVars, directory,
                   extVars>>

\* line 129
ImportLoad ==
    /\ mpc = "load"
    /\ loaded_tools_schemas' = load_tools_from_directory(directory).schemas
    /\ loaded_tool_functions' = load_tools_from_directory(directory).functions
    /\ mpc' = "ready"
    /\ UNCHANGED <<reloadVars, infoVars, requestVars, directory,
                   tool_modules_to_load, extVars>>

ReloadStep ==
    \/ \E listing \in DirListings : ReloadBuild(listing)
    \/ ReloadStoreSchemas
    \/ ReloadStoreFunctions

InfoStep ==
    \/ InfoReadSchemasCount
    \/ InfoReadFunctionsCount
    \/ InfoReadFunctionNames
    \/ InfoReadSchemas

RequestStep ==
    \/ \E h \in Histories : StartEmpty(h)
    \/ \E c \in CommandTexts, h \in Histories : Start(c, h)
    \/ \E e \in ProviderErrors : ModelRaises(e)
    \/ \E t \in ModelTexts : ModelAnswers(t)
    \/ \E b \in Batches(modelCalls + 1, MaxCalls - issued) : ModelRequestsTools(b)
    \/ ArgumentsUndecodable
    \/ TerminalArgsNotDict
    \/ \E a \in AudioValues : TerminalSpeaks(a)
    \/ \E a \in AudioValues : TerminalAudioUnsized(a)
    \/ \E e \in ToolErrors : TerminalRaises(e)
    \/ TerminalNotCallable
    \/ \E r \in ToolResults : ToolReturns(r)
    \/ \E e \in ToolErrors : ToolRaises(e)
    \/ ToolNotCallable
    \/ ToolArgsNotMapping

\* a request running while the registry is reloaded
Next == ReloadStep \/ RequestStep
Spec == Init /\ [][Next]_vars

\* get_loaded_tools_info running while the registry is reloaded
NextInfo == ReloadStep \/ InfoStep
SpecInfo == Init /\ [][NextInfo]_vars

\* the import of the module for every content of the tools directory
NextImport == DiscoveryScan \/ ImportLoad
SpecImport == InitImport /\ [][NextImport]_vars

(***************************************************************************)
(* reload_tools() with the identity of the objects it handles.  The lists  *)
(* and dicts of the registry are objects of the heap (lists, dicts); a     *)
(* reference is the index of the object.                                   *)
(***************************************************************************)
MaxObjReloads == 2     \* reload_tools() calls with object identity

\* the tools directory at a reload
ObjListings == DirListings \cup Listings(1)

\* `[]` and `{}` of lines 93-94: a new object each time
FreshList_Reuses == schemasRef
FreshList == Len(lists) + 1
FreshDict == Len(dicts) + 1

\* the heap with the object `ref` set to `value`: a new object is added, an
\* existing one is overwritten
Bind(heap, ref, value) ==
    IF ref = Len(heap) + 1 THEN Append(heap, value)
    ELSE [heap EXCEPT ![ref] = value]

\* lines 93-95
ObjBuildBegin(listing) ==
    /\ build.pc = "idle" /\ Len(lists) <= MaxObjReloads
    /\ build' = [pc |-> "loop", listing |-> listing, i |-> 1,
                 all_schemas |-> FreshList, all_tool_maps |-> FreshDict]
    /\ lists' = Bind(lists, FreshList, <<>>)
    /\ dicts' = Bind(dicts, FreshDict, <<>>)
    /\ UNCHANGED <<schemasRef, functionsRef, published, exceptObj>>

\* one iteration of the for loop, lines 97-124: list.extend and dict.update
\* change the objects all_schemas and all_tool_maps are bound to
ObjBuildEntry ==
    /\ build.pc = "loop" /\ build.i <= Len(build.listing)
    /\ LET acc == [schemas   |-> lists[build.all_schemas],
                   functions |-> dicts[build.all_tool_maps]]
           new == LoadEntry(acc, build.listing[build.i])
       IN  /\ lists' = [lists EXCEPT ![build.all_schemas] = new.schemas]
           /\ dicts' = [dicts EXCEPT ![build.all_tool_maps] = new.functions]
    /\ build' = [build EXCEPT !.i = @ + 1]
    /\ UNCHANGED <<schemasRef, functionsRef, published, exceptObj>>

\* lines 126-127: the build returns its two objects
ObjBuildReturn ==
    /\ build.pc = "loop" /\ build.i > Len(build.listing)
    /\ build' = [build EXCEPT !.pc = "store_schemas"]
    /\ UNCHANGED <<lists, dicts, schemasRef, functionsRef, published, exceptObj>>

\* the function f with f[k] set to v
Put(f, k, v) == [x \in (DOMAIN f) \cup {k} |-> IF x = k THEN v ELSE f[x]]

\* line 345: the two globals are rebound, one after the other
ObjStoreSchemas ==
    /\ build.pc = "store_schemas"
    /\ schemasRef' = build.all_schemas
    /\ published' = [published EXCEPT
                        !.schemas = Put(@, build.all_schemas, lists[build.all_schemas])]
    /\ build' = [build EXCEPT !.pc = "store_functions"]
    /\ UNCHANGED <<lists, dicts, functionsRef, exceptObj>>

ObjStoreFunctions ==
    /\ build.pc = "store_functions"
    /\ functionsRef' = build.all_tool_maps
    /\ published' = [published EXCEPT
                        !.functions = Put(@, build.all_tool_maps,
                                          dicts[build.all_tool_maps])]
    /\ build' = NoBuild
    /\ UNCHANGED <<lists, dicts, schemasRef, exceptObj>>

NextObjects ==
    \/ \E listing \in ObjListings : ObjBuildBegin(listing)
    \/ ObjBuildEntry
    \/ ObjBuildReturn
    \/ ObjStoreSchemas
    \/ ObjStoreFunctions

InitObjects == CoreInit /\ ObjInit /\ TwoIdle /\ AppIdle /\ VoiceInit /\ SessInit /\ PlanIdle
SpecObjects == InitObjects /\ [][NextObjects]_vars

(***************************************************************************)
(* Two threads run process_command_with_llm_and_tools at the same time.    *)
(* messages is a local name of each call, bound at line 223 to a new list  *)
(* object; the steps of each call are those of lines 222-321.              *)
(***************************************************************************)
MaxTwoCalls == 1       \* tool calls the model issues in each of the two requests

\* the text each thread's user sends
TwoCommands == <<"hello", "goodbye">>

\* the tool calls the model is taken to issue to the two requests
TwoShapes ==
    { <<"speak_text", "{text:hi}">>, <<"search_web", "{}">>, <<"search_web", "{bad">> }

\* tool_call.id is unique among the responses of the provider
TwoToolCall(r, turn, i, shape) ==
    [id |-> <<r, turn, i>>, name |-> shape[1], arguments |-> shape[2]]

TwoBatches(r, turn, maxLen) ==
    UNION { { [i \in 1..n |-> TwoToolCall(r, turn, i, f[i])] : f \in [1..n -> TwoShapes] }
            : n \in 1..maxLen }

\* FreshMessages that binds the list of the call before, as one list
\* kept by the module would be
FreshMessages_Shared == IF msgLists = <<>> THEN Len(msgLists) + 1 ELSE Len(msgLists)

\* the list literal of line 223: a new object each time
FreshMessages == Len(msgLists) + 1

ContinueWith(content) == [kind |-> "continue", content |-> content, response |-> NoResult]
ReturnWith(response)  == [kind |-> "return", content |-> "", response |-> response]

\* lines 245-305: what handling one tool call can do, given the function
\* map: append a tool message and go on, or return a response
CallOutcomes(tc, functions) ==
    LET args == JsonLoads(tc.arguments)
        f    == IF tc.name \in DOMAIN functions THEN functions[tc.name] ELSE None
    IN  IF ~args.ok THEN { ReturnWith(ErrorResponse(JsonError)) }
        ELSE IF tc.name = TerminalTool
        THEN IF ~args.isDict THEN { ReturnWith(ErrorResponse(NoGetAttr)) }
             ELSE IF f = None
                  THEN { ReturnWith(TextFallback(FallbackText(args.val))) }
                  ELSE { ReturnWith(AudioResponse(VoiceText(args.val),
                                                  DetailedText(args.val), a)) :
                           a \in { v \in AudioValues : Truthy(v) => HasLen(v) } }
                       \cup { ReturnWith(TextFallback(FallbackText(args.val))) }
        ELSE IF ~args.isDict THEN { ContinueWith(ToolErrorContent(NotMapping)) }
             ELSE IF f = None THEN { ContinueWith(ToolErrorContent(NotCallable)) }
                  ELSE { ContinueWith(ToolResultContent(v)) : v \in ToolResults }
                       \cup { ContinueWith(ToolErrorContent(e)) : e \in ToolErrors }

\* line 132: the caller passes its history, a list object of its own
TwoCall(r, conversation_history) ==
    /\ req[r].pc = "idle"
    /\ msgLists' = Append(msgLists, conversation_history)
    /\ req' = [req EXCEPT ![r] =
                  [@ EXCEPT !.pc = "called", !.history = Len(msgLists) + 1,
                            !.given = conversation_history]]
    /\ UNCHANGED <<exceptTwo>>

\* TwoStart that builds the message list in the caller's list: the system
\* prompt is inserted into it and the user text appended to it
TwoStart_InPlace(r) ==
    /\ req[r].pc = "called"
    /\ msgLists' = [msgLists EXCEPT ![req[r].history] =
                        SeedMessages(TwoCommands[r], msgLists[req[r].history])]
    /\ req' = [req EXCEPT ![r] =
                  [@ EXCEPT !.pc = "model", !.messages = req[r].history,
                            !.appended = <<Msg("user", TwoCommands[r])>>]]
    /\ UNCHANGED <<exceptTwo>>

\* lines 222-227: the history is read, its messages are put in a new list
TwoStart(r) ==
    /\ req[r].pc = "called"
    /\ msgLists' = Bind(msgLists, FreshMessages,
                        SeedMessages(TwoCommands[r], msgLists[req[r].history]))
    /\ req' = [req EXCEPT ![r] =
                  [@ EXCEPT !.pc = "model", !.messages = FreshMessages,
                            !.appended = <<Msg("user", TwoCommands[r])>>]]
    /\ UNCHANGED <<exceptTwo>>

\* lines 232-237 raise; lines 316-321
TwoModelRaises(r, e) ==
    /\ req[r].pc = "model"
    /\ req' = [req EXCEPT ![r] =
                  [@ EXCEPT !.pc = "done", !.result = ErrorResponse(e),
                            !.sent = Append(@, msgLists[req[r].messages])]]
    /\ UNCHANGED <<msgLists, exceptTwo>>

\* lines 232-240, 307-314
TwoModelAnswers(r, text) ==
    /\ req[r].pc = "model"
    /\ req' = [req EXCEPT ![r] =
                  [@ EXCEPT !.pc = "done", !.result = TextFallback(text),
                            !.sent = Append(@, msgLists[req[r].messages])]]
    /\ UNCHANGED <<msgLists, exceptTwo>>

\* lines 232-243
TwoModelRequestsTools(r, batch) ==
    /\ req[r].pc = "model" /\ req[r].issued + Len(batch) <= MaxTwoCalls
    /\ msgLists' = [msgLists EXCEPT ![req[r].messages] = Append(@, ToolCallTurn(batch))]
    /\ req' = [req EXCEPT ![r] =
                  [@ EXCEPT !.pc = "batch", !.tool_calls = batch, !.tcIdx = 1,
                            !.issued = @ + Len(batch), !.turns = @ + 1,
                            !.appended = Append(@, ToolCallTurn(batch)),
                            !.sent = Append(@, msgLists[req[r].messages])]]
    /\ UNCHANGED <<exceptTwo>>

\* lines 245-305: a tool message is appended and the for loop goes on
TwoToolContinues(r, o) ==
    /\ req[r].pc = "batch" /\ o.kind = "continue"
    /\ LET tc == req[r].tool_calls[req[r].tcIdx]
       IN  /\ msgLists' = [msgLists EXCEPT ![req[r].messages] =
                                             Append(@, ToolMessage(tc, o.content))]
           /\ req' = [req EXCEPT ![r] =
                         [@ EXCEPT !.tcIdx = @ + 1,
                                   !.pc = IF req[r].tcIdx + 1 > Len(req[r].tool_calls)
                                          THEN "model" ELSE "batch",
                                   !.appended = Append(@, ToolMessage(tc, o.content))]]
    /\ UNCHANGED <<exceptTwo>>

\* lines 245-281, 316-321: the request returns from inside the loop
TwoToolReturns(r, o) ==
    /\ req[r].pc = "batch" /\ o.kind = "return"
    /\ req' = [req EXCEPT ![r] = [@ EXCEPT !.pc = "done", !.result = o.response]]
    /\ UNCHANGED <<msgLists, exceptTwo>>

\* what the tool call the request is at can do
TwoOutcomes(r) ==
    IF req[r].pc = "batch"
    THEN CallOutcomes(req[r].tool_calls[req[r].tcIdx], loaded_tool_functions)
    ELSE {}

NextTwo ==
    \E r \in Requests :
        \/ \E h \in Histories : TwoCall(r, h)
        \/ TwoStart(r)
        \/ \E e \in ProviderErrors : TwoModelRaises(r, e)
        \/ \E t \in ModelTexts : TwoModelAnswers(r, t)
        \/ \E b \in TwoBatches(r, req[r].turns + 1, MaxTwoCalls - req[r].issued) :
               TwoModelRequestsTools(r, b)
        \/ \E o \in TwoOutcomes(r) : TwoToolContinues(r, o)
        \/ \E o \in TwoOutcomes(r) : TwoToolReturns(r, o)

InitTwo == CoreInit /\ ObjIdle /\ TwoIdle /\ AppIdle /\ VoiceInit /\ SessInit /\ PlanIdle
SpecTwo == InitTwo /\ [][NextTwo]_vars

(***************************************************************************)
(* The application layer: one user input from the session to the           *)
(* orchestrator and back.  The refactored application is app/main.py with  *)
(* SessionManager and ServiceManager; the original one is app.py.          *)
(***************************************************************************)
MaxInputs == 2         \* user inputs handled in one session

\* what the user may type; " " is a text that str.strip() empties
AppTexts == { "hello", " " }
Strip(text) == IF text = " " THEN "" ELSE text

\* the arguments of a speak_text call the orchestrator answered with
AppPayloads == { "{text:hi}", "{text:hi,detailed_text:more}", "{}" }

\* what process_command_with_llm_and_tools returns for a non-empty command
\* (assistant_core.py 267-281, 310-321); response_message.content is None
\* for a model turn that has neither text nor tool calls
OrchestratorResponses ==
    { ErrorResponse(e) : e \in ProviderErrors }
    \cup { TextFallback(t) : t \in ModelTexts \cup { "", None } }
    \cup { AudioResponse(VoiceText(JsonLoads(q).val), DetailedText(JsonLoads(q).val), a) :
             q \in AppPayloads, a \in { v \in AudioValues : HasLen(v) \/ v = None } }

\* app/session_manager.py 118-124 and 130-136, without the timestamp
StoredMessage(role, content, voice_text, detailed_text) ==
    [role |-> role, content |-> content,
     voice_text |-> voice_text, detailed_text |-> detailed_text]

\* app/types.py 135-138
is_valid_message(message) == { "role", "content" } \subseteq DOMAIN message

\* app/session_manager.py 10-22: the names the module session_manager binds
SessionManagerNames ==
    { "st", "Dict", "Any", "Optional", "List", "datetime", "logging",
      "Message", "SessionState", "ProcessStatus", "UploadedFile",
      "dict_to_message", "is_valid_session_state", "logger", "SessionManager" }

NameErrorText == "name 'is_valid_message' is not defined"
NoSlice == "'NoneType' object is not subscriptable"

\* app/session_manager.py 107-114: line 109 looks up is_valid_message,
\* which raises NameError when the module does not bind the name; past it
\* the message is appended, and the debug line then slices its content,
\* which raises TypeError for a content of None
AddMessageRaises(message) ==
    \/ "is_valid_message" \notin SessionManagerNames
    \/ is_valid_message(message) /\ message.content = None
AddMessageError(message) ==
    IF "is_valid_message" \notin SessionManagerNames THEN NameErrorText ELSE NoSlice
add_message(stored, message) ==
    IF "is_valid_message" \notin SessionManagerNames THEN stored
    ELSE IF is_valid_message(message) THEN Append(stored, message) ELSE stored

add_user_message(stored, content) ==
    add_message(stored, StoredMessage("user", content, None, None))
add_assistant_message(stored, content, voice_text, detailed_text) ==
    add_message(stored, StoredMessage("assistant", content, voice_text, detailed_text))

\* app/session_manager.py 147-157 and app.py 167-171: the entry of one
\* stored message in the history
HistoryEntry(msg) ==
    IF msg.role \in { "user", "assistant" }
    THEN IF { "voice_text", "detailed_text" } \subseteq DOMAIN msg
         THEN << Msg(msg.role, msg.detailed_text) >>
         ELSE IF "content" \in DOMAIN msg
              THEN << Msg(msg.role, msg.content) >>
              ELSE << >>
    ELSE << >>

RECURSIVE HistoryFrom(_, _)
HistoryFrom(stored, i) ==
    IF i > Len(stored) THEN << >>
    ELSE HistoryEntry(stored[i]) \o HistoryFrom(stored, i + 1)

\* app/session_manager.py 143-158
get_conversation_history(stored) == HistoryFrom(stored, 1)

\* app/service_manager.py 102-109; the progress is in tenths
ProcessStatus(desc, progress) == [type |-> "llm", desc |-> desc, progress |-> progress]

\* app/service_manager.py 57-60
BlankResponse == [status |-> "error", message |-> "EMPTY_MESSAGE"]
\* app/service_manager.py 94-97
ServiceError(e) == [status |-> "error", message |-> "PROCESSING_ERROR: " \o e]

\* app/service_manager.py 111-167: the message _process_ai_response adds to
\* the session, as a sequence of none or one
ProcessedMessage(response) ==
    IF response.status # "success" THEN << >>
    ELSE IF DictGet(response, "response_type", None) = "audio_response"
         THEN << StoredMessage("assistant", DictGet(response, "detailed_text", ""),
                               DictGet(response, "voice_text", ""),
                               DictGet(response, "detailed_text", "")) >>
         ELSE IF DictGet(response, "response_type", None) = "text_fallback"
              THEN << StoredMessage("assistant", DictGet(response, "text_content", ""),
                                    None, None) >>
              ELSE << StoredMessage("assistant",
                                    IF DictGet(response, "message", "") # ""
                                    THEN response.message
                                    ELSE DictGet(response, "response", ""),
                                    None, None) >>

\* app/service_manager.py 111-167: what _process_ai_response returns
ProcessedResponse(response) ==
    IF response.status # "success"
    THEN [status |-> "error",
          message |-> IF DictGet(response, "message", "") # ""
                      THEN response.message
                      ELSE DictGet(response, "response", "UNKNOWN_ERROR")]
    ELSE IF DictGet(response, "response_type", None) = "audio_response"
         THEN [status |-> "success", response_type |-> "audio_response",
               voice_text |-> DictGet(response, "voice_text", ""),
               detailed_text |-> DictGet(response, "detailed_text", ""),
               audio_content |-> DictGet(response, "audio_content", None),
               text_content |-> DictGet(response, "detailed_text", "")]
         ELSE IF DictGet(response, "response_type", None) = "text_fallback"
              THEN [status |-> "success", response_type |-> "text_fallback",
                    text_content |-> DictGet(response, "text_content", "")]
              ELSE [status |-> "success",
                    text_content |-> IF DictGet(response, "message", "") # ""
                                     THEN response.message
                                     ELSE DictGet(response, "response", "")]

\* app.py 197-254: the messages process_user_text_input adds for a response
PyHandledMessages(response) ==
    IF response.status # "success" THEN << >>
    ELSE IF DictGet(response, "response_type", None) = "audio_response"
         THEN IF Truthy(DictGet(response, "voice_text", ""))
              THEN << [role |-> "assistant", voice_text |-> response.voice_text,
                       detailed_text |-> DictGet(response, "detailed_text",
                                                 response.voice_text)] >>
              ELSE << >>
         ELSE IF /\ DictGet(response, "response_type", None) = "text_fallback"
                 /\ Truthy(DictGet(response, "text_content", None))
              THEN << [role |-> "assistant", voice_text |-> response.text_content,
                       detailed_text |-> response.text_content] >>
              ELSE << [role |-> "assistant",
                       content |-> IF Truthy(DictGet(response, "message", ""))
                                   THEN response.message
                                   ELSE IF Truthy(DictGet(response, "response", ""))
                                        THEN response.response
                                        ELSE DictGet(response, "text_content",
                                                     "NO_RESPONSE")] >>

\* every message of a sequence handed to add_message in turn
RECURSIVE AddAll(_, _)
AddAll(stored, new) ==
    IF new = << >> THEN stored ELSE AddAll(add_message(stored, Head(new)), Tail(new))

\* app/main.py 60-74: add_user_message raises at line 64, lines 67-70 are
\* not reached and the except clause shows the error
MainInput(text) ==
    /\ app.pc = "idle" /\ app.flow = "main" /\ app.inputs < MaxInputs
    /\ AddMessageRaises(StoredMessage("user", text, None, None))
    /\ session' = add_user_message(session, text)
    /\ app' = [IdleApp("main") EXCEPT
                  !.text = text, !.prior = Len(session), !.inputs = app.inputs + 1,
                  !.error = AddMessageError(StoredMessage("user", text, None, None))]
    /\ UNCHANGED <<current_process, exceptApp>>

\* app/service_manager.py 54: a caller passes a text to the service
ServiceInput(text) ==
    /\ app.pc = "idle" /\ app.flow = "service" /\ app.inputs < MaxInputs
    /\ app' = [IdleApp("service") EXCEPT !.pc = "service", !.text = text,
                                         !.prior = Len(session), !.inputs = app.inputs]
    /\ UNCHANGED <<session, current_process, exceptApp>>

\* app/service_manager.py 56-60: a blank input returns before the try
ServiceBlank ==
    /\ app.pc = "service" /\ Strip(app.text) = ""
    /\ app' = [app EXCEPT !.pc = "idle", !.returned = BlankResponse, !.inputs = @ + 1]
    /\ UNCHANGED <<session, current_process, exceptApp>>

\* app/service_manager.py 62-64
ServiceBegin ==
    /\ app.pc = "service" /\ Strip(app.text) # ""
    /\ current_process' = ProcessStatus("analysing", 1)
    /\ app' = [app EXCEPT !.pc = "prepare"]
    /\ UNCHANGED <<session, exceptApp>>

\* app/service_manager.py 67-74
ServicePrepare ==
    /\ app.pc = "prepare"
    /\ current_process' = ProcessStatus("preparing", 3)
    /\ app' = [app EXCEPT !.pc = "call", !.history = get_conversation_history(session)]
    /\ UNCHANGED <<session, exceptApp>>

\* app/service_manager.py 77-81 with assistant_core.py 223-227
ServiceCall(response) ==
    /\ app.pc = "call"
    /\ current_process' = ProcessStatus("waiting", 5)
    /\ app' = [app EXCEPT !.pc = "process", !.response = response,
                          !.first_call = SeedMessages(app.text, app.history)]
    /\ UNCHANGED <<session, exceptApp>>

\* app/service_manager.py 84-85: _process_ai_response returns
ServiceProcess ==
    /\ app.pc = "process"
    /\ \A j \in DOMAIN ProcessedMessage(app.response) :
           ~AddMessageRaises(ProcessedMessage(app.response)[j])
    /\ current_process' = ProcessStatus("processing", 8)
    /\ session' = AddAll(session, ProcessedMessage(app.response))
    /\ app' = [app EXCEPT !.pc = "finish", !.processed = ProcessedResponse(app.response)]
    /\ UNCHANGED <<exceptApp>>

\* ServiceRaises without the finally of lines 98-100
ServiceRaises_StatusLeft ==
    /\ app.pc = "process"
    /\ \E j \in DOMAIN ProcessedMessage(app.response) :
           AddMessageRaises(ProcessedMessage(app.response)[j])
    /\ session' = AddAll(session, ProcessedMessage(app.response))
    /\ current_process' = ProcessStatus("processing", 8)
    /\ app' = [app EXCEPT
                  !.pc = "idle", !.inputs = @ + 1,
                  !.returned = ServiceError(AddMessageError(ProcessedMessage(app.response)[1]))]
    /\ UNCHANGED <<exceptApp>>

\* app/service_manager.py 84-85, 92-100: add_message raises inside
\* _process_ai_response; the except clause returns an error and the
\* finally clause clears the status
ServiceRaises ==
    /\ app.pc = "process"
    /\ \E j \in DOMAIN ProcessedMessage(app.response) :
           AddMessageRaises(ProcessedMessage(app.response)[j])
    /\ session' = AddAll(session, ProcessedMessage(app.response))
    /\ current_process' = NoProcess
    /\ app' = [app EXCEPT
                  !.pc = "idle", !.inputs = @ + 1,
                  !.returned = ServiceError(AddMessageError(ProcessedMessage(app.response)[1]))]
    /\ UNCHANGED <<exceptApp>>

\* app/service_manager.py 88
ServiceComplete ==
    /\ app.pc = "finish"
    /\ current_process' = ProcessStatus("done", 10)
    /\ app' = [app EXCEPT !.pc = "return"]
    /\ UNCHANGED <<session, exceptApp>>

\* app/service_manager.py 90, 98-100
ServiceReturn ==
    /\ app.pc = "return"
    /\ current_process' = NoProcess
    /\ app' = [app EXCEPT !.pc = "idle", !.returned = app.processed, !.inputs = @ + 1]
    /\ UNCHANGED <<session, exceptApp>>

\* app.py 141-157; a blank text returns at line 144 with nothing changed
PyInput(text) ==
    /\ app.pc = "idle" /\ app.flow = "app_py" /\ app.inputs < MaxInputs
    /\ Strip(text) # ""
    /\ session' = Append(session, [role |-> "user", content |-> text])
    /\ current_process' = ProcessStatus("analysing", 1)
    /\ app' = [IdleApp("app_py") EXCEPT !.pc = "py_history", !.text = text,
                                        !.prior = Len(session), !.inputs = app.inputs]
    /\ UNCHANGED <<exceptApp>>

\* app.py 160-171
PyHistory ==
    /\ app.pc = "py_history"
    /\ current_process' = ProcessStatus("preparing", 3)
    /\ app' = [app EXCEPT !.pc = "py_call", !.history = get_conversation_history(session)]
    /\ UNCHANGED <<session, exceptApp>>

\* app.py 177-182 with assistant_core.py 223-227
PyCall(response) ==
    /\ app.pc = "py_call"
    /\ current_process' = ProcessStatus("waiting", 5)
    /\ app' = [app EXCEPT !.pc = "py_handle", !.response = response,
                          !.first_call = SeedMessages(app.text, app.history)]
    /\ UNCHANGED <<session, exceptApp>>

\* app.py 184-256
PyHandle ==
    /\ app.pc = "py_handle"
    /\ session' = session \o PyHandledMessages(app.response)
    /\ current_process' = NoProcess
    /\ app' = [app EXCEPT !.pc = "idle", !.inputs = @ + 1]
    /\ UNCHANGED <<exceptApp>>

NextApp ==
    \/ \E text \in AppTexts : MainInput(text)
    \/ \E text \in AppTexts : ServiceInput(text)
    \/ ServiceBlank
    \/ ServiceBegin
    \/ ServicePrepare
    \/ \E response \in OrchestratorResponses : ServiceCall(response)
    \/ ServiceProcess
    \/ ServiceRaises
    \/ ServiceComplete
    \/ ServiceReturn
    \/ \E text \in AppTexts : PyInput(text)
    \/ PyHistory
    \/ \E response \in OrchestratorResponses : PyCall(response)
    \/ PyHandle

InitApp == CoreInit /\ ObjIdle /\ TwoIdle /\ AppInit /\ VoiceInit /\ SessInit /\ PlanIdle
SpecApp == InitApp /\ [][NextApp]_vars

(***************************************************************************)
(* Continuous voice recognition: the script thread calls VoiceManager and  *)
(* the listener threads run _continuous_voice_listener, all on the flag    *)
(* voice_recognition_active of the session.                                *)
(***************************************************************************)
\* a thread is alive from Thread.start() until its target returned
Alive(t) == listeners[t] \in { "loop", "listening", "finally" }
NoneAlive == \A t \in Threads : ~Alive(t)

\* what the recogniser may hear; " " is a text that str.strip() empties
HeardTexts == { "hi", " " }

\* app/session_manager.py 168-170: the setter of the flag, for the
\* voice-recognition toggle of the interface
SetVoiceRecognitionActive(active) ==
    /\ script.pc = "idle" /\ voice_recognition_active # active
    /\ voice_recognition_active' = active
    /\ script' = IdleScript
    /\ UNCHANGED <<voice_thread, text_input, listeners, exceptVoice>>

\* app/main.py 98-108: the flag is read, then start or stop is called
HandleVoiceRecognition ==
    /\ script.pc = "idle"
    /\ script' = [IdleScript EXCEPT
                     !.by = "handle",
                     !.owed = voice_recognition_active /\ NoneAlive,
                     !.pc = IF voice_recognition_active THEN "start"
                            ELSE IF voice_thread # 0 /\ Alive(voice_thread)
                                 THEN "stop" ELSE "idle"]
    /\ UNCHANGED <<voice_recognition_active, voice_thread, text_input, listeners,
                   exceptVoice>>

\* a caller other than _handle_voice_recognition starts the recognition
CallStart ==
    /\ script.pc = "idle"
    /\ script' = [IdleScript EXCEPT !.by = "caller", !.pc = "start"]
    /\ UNCHANGED <<voice_recognition_active, voice_thread, text_input, listeners,
                   exceptVoice>>

\* a caller other than _handle_voice_recognition stops the recognition
\* (VoiceManager.cleanup, line 225)
CallStop ==
    /\ script.pc = "idle"
    /\ script' = [IdleScript EXCEPT !.by = "caller", !.pc = "stop"]
    /\ UNCHANGED <<voice_recognition_active, voice_thread, text_input, listeners,
                   exceptVoice>>

\* app/voice_manager.py 83-85: the flag is active and start returns
StartReturns ==
    /\ script.pc = "start" /\ voice_recognition_active
    /\ script' = [script EXCEPT !.pc = "idle"]
    /\ UNCHANGED <<voice_recognition_active, voice_thread, text_input, listeners,
                   exceptVoice>>

\* app/voice_manager.py 83-87: the flag is not active and is set
StartSetsFlag ==
    /\ script.pc = "start" /\ ~voice_recognition_active
    /\ \E t \in Threads : listeners[t] = "unborn"
    /\ voice_recognition_active' = TRUE
    /\ script' = [script EXCEPT !.pc = "spawn"]
    /\ UNCHANGED <<voice_thread, text_input, listeners, exceptVoice>>

\* app/voice_manager.py 88-94: the thread is created, stored and started
StartSpawns ==
    /\ script.pc = "spawn"
    /\ LET t == CHOOSE t \in Threads :
                    listeners[t] = "unborn" /\ \A u \in 1..(t - 1) : listeners[u] # "unborn"
       IN  /\ listeners' = [listeners EXCEPT ![t] = "loop"]
           /\ voice_thread' = t
    /\ script' = [script EXCEPT !.pc = "idle", !.spawned = TRUE]
    /\ UNCHANGED <<voice_recognition_active, text_input, exceptVoice>>

\* app/voice_manager.py 98-100: the flag is not active and stop returns
StopReturns ==
    /\ script.pc = "stop" /\ ~voice_recognition_active
    /\ script' = [script EXCEPT !.pc = "idle"]
    /\ UNCHANGED <<voice_recognition_active, voice_thread, text_input, listeners,
                   exceptVoice>>

\* app/voice_manager.py 98-108: the flag is cleared; the thread is not joined
StopClearsFlag ==
    /\ script.pc = "stop" /\ voice_recognition_active
    /\ voice_recognition_active' = FALSE
    /\ script' = [script EXCEPT !.pc = "idle", !.cleared = TRUE]
    /\ UNCHANGED <<voice_thread, text_input, listeners, exceptVoice>>

\* ListenerChecks that goes on listening whatever the flag is
ListenerChecks_IgnoresFlag(t) ==
    /\ listeners[t] = "loop"
    /\ listeners' = [listeners EXCEPT ![t] = "listening"]
    /\ UNCHANGED <<voice_recognition_active, voice_thread, text_input, script,
                   exceptVoice>>

\* app/voice_manager.py 113: the condition of the while loop
ListenerChecks(t) ==
    /\ listeners[t] = "loop"
    /\ listeners' = [listeners EXCEPT ![t] =
                        IF voice_recognition_active THEN "listening" ELSE "finally"]
    /\ UNCHANGED <<voice_recognition_active, voice_thread, text_input, script,
                   exceptVoice>>

\* app/voice_manager.py 115-127, 134-139: listen() times out after one
\* second, the speech is not understood, or the text is blank
ListenerHearsNothing(t) ==
    /\ listeners[t] = "listening"
    /\ listeners' = [listeners EXCEPT ![t] = "loop"]
    /\ UNCHANGED <<voice_recognition_active, voice_thread, text_input, script,
                   exceptVoice>>

\* app/voice_manager.py 115-132: a text is recognised and stored; st.rerun()
\* in a thread that is not the script thread either returns or raises
ListenerHears(t, text, rerunRaises) ==
    /\ listeners[t] = "listening" /\ Strip(text) # ""
    /\ text_input' = text
    /\ listeners' = [listeners EXCEPT ![t] = IF rerunRaises THEN "finally" ELSE "loop"]
    /\ UNCHANGED <<voice_recognition_active, voice_thread, script, exceptVoice>>

\* app/voice_manager.py 140-142: any other exception leaves the loop
ListenerFails(t) ==
    /\ listeners[t] = "listening"
    /\ listeners' = [listeners EXCEPT ![t] = "finally"]
    /\ UNCHANGED <<voice_recognition_active, voice_thread, text_input, script,
                   exceptVoice>>

\* ListenerExits without the finally clause of lines 146-147
ListenerExits_FlagKept(t) ==
    /\ listeners[t] = "finally"
    /\ listeners' = [listeners EXCEPT ![t] = "dead"]
    /\ UNCHANGED <<voice_recognition_active, voice_thread, text_input, script,
                   exceptVoice>>

\* app/voice_manager.py 144-147: the finally clause clears the flag and
\* the thread ends
ListenerExits(t) ==
    /\ listeners[t] = "finally"
    /\ voice_recognition_active' = FALSE
    /\ listeners' = [listeners EXCEPT ![t] = "dead"]
    /\ UNCHANGED <<voice_thread, text_input, script, exceptVoice>>

\* the steps of one listener thread
ListenerStep(t) ==
    \/ ListenerChecks(t)
    \/ ListenerHearsNothing(t)
    \/ \E text \in HeardTexts, rerunRaises \in BOOLEAN : ListenerHears(t, text, rerunRaises)
    \/ ListenerFails(t)
    \/ ListenerExits(t)

NextVoice ==
    \/ \E active \in BOOLEAN : SetVoiceRecognitionActive(active)
    \/ HandleVoiceRecognition
    \/ CallStart
    \/ CallStop
    \/ StartReturns
    \/ StartSetsFlag
    \/ StartSpawns
    \/ StopReturns
    \/ StopClearsFlag
    \/ \E t \in Threads : ListenerStep(t)

InitVoice == CoreInit /\ ObjIdle /\ TwoIdle /\ AppIdle /\ VoiceInit /\ SessInit /\ PlanIdle
SpecVoice == InitVoice /\ [][NextVoice]_vars

\* a thread that is alive goes on running: listen() returns within its
\* timeout of one second
SpecVoiceFair == SpecVoice /\ \A t \in Threads : WF_vars(ListenerStep(t))

(***************************************************************************)
(* The session state.  st.session_state is a mapping the browser session   *)
(* keeps across script runs; each run constructs a SessionManager.         *)
(***************************************************************************)
MaxTicks == 2    \* times the clock advances

SystemPrompt == "You are an expert AI Planning Assistant."
Greeting     == "greeting"

\* app/session_manager.py 32-94: a key gets its value when it is absent
SetDefault_Overwrites(state, key, value) == (key :> value) @@ state
SetDefault(state, key, value) ==
    IF key \in DOMAIN state THEN state ELSE state @@ (key :> value)

\* app/session_manager.py 33-66: the list with the system prompt and the
\* greeting, each stamped with datetime.now()
SeededMessages(t) ==
    << [role |-> "system", content |-> SystemPrompt, timestamp |-> t],
       [role |-> "assistant", content |-> Greeting, timestamp |-> t] >>

\* app/session_manager.py 30-94
_initialize_session_state(state, t) ==
    LET s1 == SetDefault(state, "messages", SeededMessages(t))
        s2 == SetDefault(s1, "text_input", "")
        s3 == SetDefault(s2, "voice_recognition_active", FALSE)
        s4 == SetDefault(s3, "initial_greeting_played", FALSE)
        s5 == SetDefault(s4, "current_process", None)
        s6 == SetDefault(s5, "chatbot_uploaded_file", None)
        s7 == SetDefault(s6, "voice_thread", None)
    IN  SetDefault(s7, "voice_status_placeholder", None)

\* the setters of app/session_manager.py 161-215 and what they may be given
SetterValues ==
    [text_input |-> { "", "hello" },
     voice_recognition_active |-> BOOLEAN,
     initial_greeting_played |-> BOOLEAN,
     chatbot_uploaded_file |-> { None, "file" }]

\* app/session_manager.py 24-27: SessionManager()
Construct ==
    /\ session_state' = _initialize_session_state(session_state, now)
    /\ last' = [op |-> "construct", before |-> session_state, at |-> now]
    /\ UNCHANGED <<now, exceptSess>>

\* app/session_manager.py 161-215: set_text_input and the setters like it
Set(key, value) ==
    /\ last.op # "none"
    /\ session_state' = (key :> value) @@ session_state
    /\ last' = [op |-> "set", before |-> session_state, at |-> now]
    /\ UNCHANGED <<now, exceptSess>>

\* app/session_manager.py 217-220
clear_messages ==
    /\ last.op # "none"
    /\ session_state' = ("messages" :> << >>) @@ session_state
    /\ last' = [op |-> "clear_messages", before |-> session_state, at |-> now]
    /\ UNCHANGED <<now, exceptSess>>

\* app/session_manager.py 222-226: clear() drops every key, then the
\* state is initialised
clear_session ==
    /\ last.op # "none"
    /\ session_state' = _initialize_session_state(NoKeys, now)
    /\ last' = [op |-> "clear_session", before |-> session_state, at |-> now]
    /\ UNCHANGED <<now, exceptSess>>

\* time passes between two calls
Tick ==
    /\ now < MaxTicks
    /\ now' = now + 1
    /\ UNCHANGED <<session_state, last, exceptSess>>

NextSession ==
    \/ Construct
    \/ \E key \in DOMAIN SetterValues : \E value \in SetterValues[key] : Set(key, value)
    \/ clear_messages
    \/ clear_session
    \/ Tick

InitSession == CoreInit /\ ObjIdle /\ TwoIdle /\ AppIdle /\ VoiceInit /\ SessInit /\ PlanIdle
SpecSession == InitSession /\ [][NextSession]_vars

(***************************************************************************)
(* planning_tool's check of its own interface.                             *)
(***************************************************************************)
MaxSchemas == 2    \* entries of TOOL_SCHEMAS

PlanNames == { "create_new_planning_document", "summarize_notion_document" }

\* tools/planning_tool/core.py 422-545: a schema that declares a function
\* name; beside it an entry whose function has no name and an entry
\* without a function
NamedSchema(name) == [type |-> "function", function |-> [name |-> name]]
UnnamedSchema     == [type |-> "function", function |-> [description |-> "text"]]
BareSchema        == [type |-> "function"]
SchemaShapes == { NamedSchema(n) : n \in PlanNames } \cup { UnnamedSchema, BareSchema }

\* tools/planning_tool/core.py 548-553: what a name is mapped to, a
\* function or a value that cannot be called
MapValues == { "function", "str" }
callable(value) == value = "function"

\* tools/planning_tool/core.py 570: the comprehension reads
\* schema["function"]["name"] of every schema that has a function, which
\* raises KeyError where the name is missing
HasFunction(schema) == "function" \in DOMAIN schema
NameLookupRaises(schemas) ==
    \E i \in DOMAIN schemas :
        HasFunction(schemas[i]) /\ "name" \notin DOMAIN schemas[i].function
schema_function_names(schemas) ==
    LET with == SelectSeq(schemas, HasFunction)
    IN  [i \in DOMAIN with |-> with[i].function.name]

\* validate_tool_interface without the check of lines 583-586
validate_tool_interface_OneWay(schemas, map) ==
    IF NameLookupRaises(schemas) THEN FALSE
    ELSE IF \E i \in DOMAIN schema_function_names(schemas) :
                schema_function_names(schemas)[i] \notin DOMAIN map THEN FALSE
    ELSE IF \E name \in DOMAIN map : ~callable(map[name]) THEN FALSE
    ELSE TRUE
\* tools/planning_tool/core.py 557-590: an exception of the checks is
\* caught at line 588 and the result is False
validate_tool_interface(schemas, map) ==
    IF NameLookupRaises(schemas) THEN FALSE
    ELSE IF \E i \in DOMAIN schema_function_names(schemas) :
                schema_function_names(schemas)[i] \notin DOMAIN map THEN FALSE
    ELSE IF \E name \in DOMAIN map :
                \/ ~callable(map[name])
                \/ \A i \in DOMAIN schema_function_names(schemas) :
                       schema_function_names(schemas)[i] # name THEN FALSE
    ELSE TRUE

\* tools/planning_tool/core.py 593-595: the module calls the function when
\* it is imported; any caller may call it again
Validate ==
    /\ validated' = << validate_tool_interface(TOOL_SCHEMAS, TOOL_MAP) >>
    /\ UNCHANGED <<TOOL_SCHEMAS, TOOL_MAP, exceptPlan>>

NextPlan == Validate

PlanInit ==
    /\ TOOL_SCHEMAS \in UNION { [1..n -> SchemaShapes] : n \in 0..MaxSchemas }
    /\ TOOL_MAP \in UNION { [keys -> MapValues] : keys \in SUBSET PlanNames }
    /\ validated = << >>

InitPlan == CoreInit /\ ObjIdle /\ TwoIdle /\ AppIdle /\ VoiceInit /\ SessInit /\ PlanInit
SpecPlan == InitPlan /\ [][NextPlan]_vars

(***************************************************************************)
(* Properties.                                                             *)
(***************************************************************************)
InSeq(x, seq) == \E j \in DOMAIN seq : seq[j] = x

LastEvent == events[Len(events)]

\* the tool calls of the turn-th model turn, as recorded in the history
BatchOfTurn(turn) ==
    LET j == CHOOSE j \in DOMAIN messages :
                 /\ messages[j].tool_calls # <<>>
                 /\ messages[j].tool_calls[1].id[1] = turn
    IN  messages[j].tool_calls

IsToolRaise(ev) ==
    ev.kind = "tool" /\ ev.call.name # TerminalTool /\ ev.outcome = "raised"

ErrorMessageOf(ev) ==
    [role |-> "tool", content |-> "ERROR: " \o ev.value, name |-> ev.call.name,
     tool_call_id |-> ev.call.id, tool_calls |-> <<>>]

\* C1: when the callable of a non-terminal tool call raises, the request
\* does not end there: a 'tool' message with the call's id and name and the
\* error text is in the history, the next call of the batch is the next
\* thing handled (after the last call of the batch, the next model call),
\* and every later model call of the request is given a history that
\* contains that message.
C1_ToolExceptionIsContained ==
    \A i \in DOMAIN events :
        IsToolRaise(events[i]) =>
            LET ev    == events[i]
                batch == BatchOfTurn(ev.call.id[1])
                k     == ev.call.id[2]
            IN  /\ InSeq(ErrorMessageOf(ev), messages)
                /\ IF i = Len(events)
                   THEN /\ result = [status |-> "none"]
                        /\ pc = IF k < Len(batch) THEN "batch" ELSE "model"
                        /\ k < Len(batch) => tcIdx = k + 1
                   ELSE IF k < Len(batch)
                        THEN /\ events[i + 1].kind = "tool"
                             /\ events[i + 1].call = batch[k + 1]
                        ELSE events[i + 1].kind = "model"
                /\ \A j \in DOMAIN events :
                       (j > i /\ events[j].kind = "model") =>
                           InSeq(ErrorMessageOf(ev), events[j].messages)

\* the first call of a batch of two raised, the second call was handled and
\* the model was called again with the error message in the history
C1_Witness ==
    \E i \in DOMAIN events :
        /\ IsToolRaise(events[i])
        /\ i + 2 \in DOMAIN events
        /\ events[i + 1].kind = "tool"
        /\ events[i + 2].kind = "model"
        /\ InSeq(ErrorMessageOf(events[i]), events[i + 2].messages)

\* C2: a request returns a status "error" outcome only when the call of the
\* model provider raised (or the command text was empty), never at a tool
\* call the model issued for a non-terminal tool.
C2_OnlyProviderErrorsEndTheRequest ==
    (pc = "done" /\ result.status = "error") =>
        ~(LastEvent.kind = "tool" /\ LastEvent.call.name # TerminalTool)

IsModelEvent(ev) == ev.kind = "model"
IsToolEvent(ev)  == ev.kind = "tool"

\* C3: during one request the registry view does not change: every model
\* call is given the same schema list as the earlier model calls of the
\* request, and every tool lookup uses the same function map as the earlier
\* lookups of the request.
C3_SnapshotIsolation ==
    \A i, j \in DOMAIN events :
        i < j =>
            /\ (IsModelEvent(events[i]) /\ IsModelEvent(events[j]))
                   => events[j].tools = events[i].tools
            /\ (IsToolEvent(events[i]) /\ IsToolEvent(events[j]))
                   => events[j].functions = events[i].functions

\* every registry snapshot a build can produce
Snapshots == { load_tools_from_directory(l) : l \in DirListings }

\* the index of the model call whose turn the tool call handled at j belongs to
ModelCallBefore(j) ==
    CHOOSE i \in 1..j :
        /\ IsModelEvent(events[i])
        /\ \A m \in (i + 1)..j : ~IsModelEvent(events[m])

\* C4: the schema list and the function map a reader observes belong to one
\* registry snapshot: the schemas a request hands to the model and the
\* function map it then looks the turn's calls up in are those of one
\* build, and so are the counts, names and schemas get_loaded_tools_info
\* returns.
C4_ReadersSeeOneSnapshot ==
    /\ \A j \in DOMAIN events :
           IsToolEvent(events[j]) =>
               \E snap \in Snapshots :
                   /\ events[ModelCallBefore(j)].tools = snap.schemas
                   /\ events[j].functions = snap.functions
    /\ ipc = 4 =>
           \E snap \in Snapshots :
               /\ info.schemas = snap.schemas
               /\ info.schemas_count = Len(snap.schemas)
               /\ info.available_functions = DOMAIN snap.functions
               /\ info.functions_count = Cardinality(DOMAIN snap.functions)

IsTerminalEvent(ev) == ev.kind = "tool" /\ ev.call.name = "speak_text"

\* C5: a speak_text call ends the request: when the loop handles it, the
\* calls before it in the batch have each been handled once, in issue order
\* (each callable that was registered and given a mapping ran once), the
\* terminal callable ran once (when registered and the outcome is a terminal
\* one), no later call of the batch is handled or gets a 'tool' message,
\* and nothing is called after it.
C5_TerminalCallShortCircuits ==
    \A i \in DOMAIN events :
        IsTerminalEvent(events[i]) =>
            LET ev    == events[i]
                batch == BatchOfTurn(ev.call.id[1])
                k     == ev.call.id[2]
            IN  /\ i = Len(events) /\ pc = "done"
                /\ i > k /\ IsModelEvent(events[i - k])
                /\ \A m \in 1..k :
                       /\ IsToolEvent(events[i - k + m])
                       /\ events[i - k + m].call = batch[m]
                /\ \A m \in 1..(k - 1) :
                       /\ batch[m].name # "speak_text"
                       /\ events[i - k + m].invoked =
                              (/\ batch[m].name \in DOMAIN events[i - k + m].functions
                               /\ JsonLoads(batch[m].arguments).isDict)
                /\ ev.outcome \in {"returned", "raised", "not_callable"} =>
                       /\ result.status = "success"
                       /\ ev.invoked = ("speak_text" \in DOMAIN ev.functions)
                /\ \A m \in (k + 1)..Len(batch) :
                       \A n \in DOMAIN messages :
                           messages[n].tool_call_id # batch[m].id

\* speak_text came first in a batch of two and ran: the second call was skipped
C5_Witness ==
    /\ pc = "done" /\ events # <<>>
    /\ IsTerminalEvent(LastEvent) /\ LastEvent.invoked
    /\ LastEvent.call.id[2] = 1
    /\ Len(tool_calls) = 2
    /\ tool_calls[2].name = "search_web"
    /\ "search_web" \in DOMAIN LastEvent.functions

StrOf(v) == IF v = "None" THEN "None" ELSE "42"

\* C6: when the model is called after a batch of n calls, none of them
\* speak_text, the n calls were handled one at a time in issue order and
\* the history passed is the previous call's history, then the model's
\* tool-call turn, then exactly n 'tool' messages, the m-th with the id and
\* name of the m-th call and str() of its result or its error text; if that
\* model turn has no tool calls the request ends with a text_fallback.
C6_BatchFoldsIntoHistory ==
    \A j \in DOMAIN events :
        (IsModelEvent(events[j]) /\ j > 2) =>
            LET i     == ModelCallBefore(j - 1)
                prev  == events[i].messages
                cur   == events[j].messages
                turn  == cur[Len(prev) + 1]
                batch == turn.tool_calls
                n     == Len(batch)
            IN  /\ events[i].outcome = "tool_calls"
                /\ n >= 1 /\ j = i + n + 1
                /\ Len(cur) = Len(prev) + 1 + n
                /\ SubSeq(cur, 1, Len(prev)) = prev
                /\ turn.role = "assistant"
                /\ \A m \in 1..n :
                       LET ev == events[i + m]
                       IN  /\ IsToolEvent(ev) /\ ev.call = batch[m]
                           /\ batch[m].name # "speak_text"
                           /\ cur[Len(prev) + 1 + m] =
                                 [role |-> "tool",
                                  tool_call_id |-> batch[m].id,
                                  name |-> batch[m].name,
                                  content |-> IF ev.outcome = "returned"
                                              THEN StrOf(ev.value)
                                              ELSE "ERROR: " \o ev.value,
                                  tool_calls |-> <<>>]
                /\ events[j].outcome = "text" =>
                       /\ pc = "done"
                       /\ result = [status |-> "success",
                                    response_type |-> "text_fallback",
                                    text_content |-> events[j].value]

\* a batch of two non-terminal calls, one returned and one raised, then a
\* model turn without tool calls
C6_Witness ==
    /\ pc = "done" /\ Len(events) = 5
    /\ IsModelEvent(LastEvent) /\ LastEvent.outcome = "text"
    /\ events[3].outcome = "returned" /\ events[3].value = "int:42"
    /\ events[4].outcome = "raised"
    /\ result.status = "success"

\* C7: a model turn without tool calls, at any iteration, ends the request
\* with {status: success, response_type: text_fallback, text_content: the
\* turn's text}; no tool call and no model call follows it.
C7_TextTurnEndsTheRequest ==
    \A i \in DOMAIN events :
        (IsModelEvent(events[i]) /\ events[i].outcome = "text") =>
            /\ i = Len(events)
            /\ pc = "done"
            /\ result = [status |-> "success", response_type |-> "text_fallback",
                         text_content |-> events[i].value]

\* the second model turn of a request has no tool calls
C7_Witness ==
    /\ pc = "done" /\ Len(events) > 2
    /\ IsModelEvent(LastEvent) /\ LastEvent.outcome = "text"
    /\ result.text_content = "final answer"

\* the request returned from the handling of a speak_text call whose
\* arguments decoded to a dict
EndedAtTerminalCall ==
    /\ pc = "done" /\ events # <<>>
    /\ IsTerminalEvent(LastEvent)
    /\ JsonLoads(LastEvent.call.arguments).isDict

TerminalArgs == JsonLoads(LastEvent.call.arguments).val

IsBytesOrNone(a) == a \in {"bytes:RIFF", "bytes:", "None"}

\* C8: a speak_text call with arguments text = v and a non-empty
\* detailed_text = d whose callable returns a (bytes or None) ends the
\* request with {status: success, response_type: audio_response,
\* voice_text: v, detailed_text: d, audio_content: a}.
C8_AudioResponseCarriesBothTexts ==
    (/\ EndedAtTerminalCall
     /\ LastEvent.invoked /\ LastEvent.outcome = "returned"
     /\ IsBytesOrNone(LastEvent.value)
     /\ "text" \in DOMAIN TerminalArgs
     /\ "detailed_text" \in DOMAIN TerminalArgs
     /\ TerminalArgs["detailed_text"] # "")
    => result = [status |-> "success", response_type |-> "audio_response",
                 voice_text |-> TerminalArgs["text"],
                 detailed_text |-> TerminalArgs["detailed_text"],
                 audio_content |-> LastEvent.value]

\* speak_text(text = hi, detailed_text = more) returned None
C8_Witness ==
    /\ EndedAtTerminalCall
    /\ LastEvent.invoked /\ LastEvent.outcome = "returned"
    /\ LastEvent.value = "None"
    /\ LastEvent.call.arguments = "{text:hi,detailed_text:more}"
    /\ result.status = "success"

\* C9: when the invocation of speak_text raises (the callable raises, or
\* no callable is registered under the name), the request ends with
\* {status: success, response_type: text_fallback, text_content: t}, t being
\* the call's detailed_text when that is non-empty and its voice text
\* otherwise; the outcome is never a status "error".
C9_TerminalFailureFallsBackToText ==
    (/\ EndedAtTerminalCall
     /\ LastEvent.outcome \in {"raised", "not_callable"})
    => LET d == IF "detailed_text" \in DOMAIN TerminalArgs
                THEN TerminalArgs["detailed_text"] ELSE ""
           v == IF "text" \in DOMAIN TerminalArgs THEN TerminalArgs["text"] ELSE ""
       IN  result = [status |-> "success", response_type |-> "text_fallback",
                     text_content |-> IF d # "" THEN d ELSE v]

\* the speak_text callable raised on a call that carries text and no
\* detailed_text
C9_Witness ==
    /\ EndedAtTerminalCall
    /\ LastEvent.invoked /\ LastEvent.outcome = "raised"
    /\ LastEvent.call.arguments = "{text:hi}"
    /\ result.status = "success"
    /\ result.text_content = "hi"

IsAudioResponse(r) ==
    /\ "response_type" \in DOMAIN r
    /\ r.response_type = "audio_response"

\* C10: in an audio_response, detailed_text equals voice_text when the
\* speak_text call carried no detailed_text (absent or empty), and
\* detailed_text is non-empty whenever voice_text is non-empty.
C10_DetailedTextFallsBackToVoiceText ==
    (pc = "done" /\ IsAudioResponse(result)) =>
        /\ EndedAtTerminalCall
        /\ ("detailed_text" \notin DOMAIN TerminalArgs
               \/ TerminalArgs["detailed_text"] = "")
              => result.detailed_text = result.voice_text
        /\ result.voice_text # "" => result.detailed_text # ""

\* an audio_response for a call whose detailed_text is the empty string
C10_Witness ==
    /\ pc = "done" /\ IsAudioResponse(result)
    /\ LastEvent.call.arguments = "{text:hi,detailed_text:}"
    /\ result.voice_text = "hi"
    /\ result.detailed_text = "hi"

\* C11: when the call of the model provider raises, at whatever iteration,
\* the request ends there with a status "error" outcome that carries the
\* text of the exception: nothing is recorded after that call (the model
\* is not called again, no tool is invoked).
C11_ProviderErrorEndsTheRequest ==
    \A j \in DOMAIN events :
        (events[j].kind = "model" /\ events[j].outcome = "raised") =>
            /\ j = Len(events)
            /\ pc = "done"
            /\ result = [status |-> "error",
                         response |-> "PROCESSING_ERROR: " \o events[j].value]

\* the provider raised at the second iteration, after a tool had run
C11_Witness ==
    /\ pc = "done" /\ modelCalls = 2
    /\ LastEvent.kind = "model" /\ LastEvent.outcome = "raised"
    /\ \E i \in DOMAIN events : events[i].kind = "tool" /\ events[i].invoked

\* the three shapes of the response contract
IsContractShape(r) ==
    \/ /\ DOMAIN r = {"status", "response_type", "voice_text", "detailed_text",
                      "audio_content"}
       /\ r.status = "success" /\ r.response_type = "audio_response"
    \/ /\ DOMAIN r = {"status", "response_type", "text_content"}
       /\ r.status = "success" /\ r.response_type = "text_fallback"
    \/ /\ DOMAIN r = {"status", "message"}
       /\ r.status = "error"

\* C12: every value process_command_with_llm_and_tools returns has one of
\* the three shapes of the response contract: the audio response, the text
\* fallback, or {status: "error", message}.
C12_EveryResultHasAContractShape ==
    pc = "done" => IsContractShape(result)

C14_LoopEndsOnlyAtTextTerminalOrProviderError ==
    (pc = "done" /\ modelCalls >= 1) =>
        \/ LastEvent.kind = "model" /\ LastEvent.outcome \in {"text", "raised"}
        \/ LastEvent.kind = "tool" /\ LastEvent.call.name = "speak_text"
(***************************************************************************)
(* The registry build, checked on the import of the module.                *)
(***************************************************************************)
\* the names a module's schema list declares
SchemaNames(e) == { e.TOOL_SCHEMAS[i].name : i \in DOMAIN e.TOOL_SCHEMAS }

\* an entry the discovery rules skip: no directory, an internal name, the
\* template
IsSkipped(e) ==
    ~e.isdir \/ e.name \in {"__pycache__", "__internal"} \/ e.name = "tool_template"

\* a valid capability module: a module directory that is not skipped, whose
\* core.py imports and has both collections with the same set of names
IsValidModule(e) ==
    /\ ~IsSkipped(e) /\ e.hasCore /\ ~e.raises
    /\ e.hasSchemas /\ e.hasMap
    /\ SchemaNames(e) = DOMAIN e.TOOL_MAP

\* a module directory whose core.py imports but breaks the module contract
IsInvalidModule(e) ==
    /\ ~IsSkipped(e) /\ e.hasCore /\ ~e.raises
    /\ ~(e.hasSchemas /\ e.hasMap /\ SchemaNames(e) = DOMAIN e.TOOL_MAP)

RECURSIVE SchemaCount(_)
SchemaCount(listing) ==
    IF listing = <<>> THEN 0
    ELSE Len(Head(listing).TOOL_SCHEMAS) + SchemaCount(Tail(listing))

\* what the registry holds of module e
SchemasFrom(e) ==
    { j \in DOMAIN loaded_tools_schemas : loaded_tools_schemas[j].module = e.name }
FunctionsFrom(e) ==
    { k \in DOMAIN loaded_tool_functions : loaded_tool_functions[k] = e.name }

\* C15: when the tools directory holds valid capability modules only, the
\* registry's schema list is as long as the modules' schema lists together
\* and every schema name of the registry is a key of its function map.
C15_RegistryHoldsEveryValidModule ==
    (mpc = "ready" /\ \A i \in DOMAIN directory : IsValidModule(directory[i])) =>
        /\ Len(loaded_tools_schemas) = SchemaCount(directory)
        /\ \A j \in DOMAIN loaded_tools_schemas :
               /\ loaded_tools_schemas[j].name \in DOMAIN loaded_tool_functions
               /\ loaded_tool_functions[loaded_tools_schemas[j].name] # "None"

\* the registry was built from two or more valid modules
C15_Witness ==
    /\ mpc = "ready" /\ Len(directory) >= 2
    /\ \A i \in DOMAIN directory : IsValidModule(directory[i])
    /\ Len(loaded_tools_schemas) >= 2

\* C16: a module without the schema list, without the function map, or
\* whose schema names and function-map keys differ contributes no schema
\* and no function; every valid module contributes all of its schemas and
\* all of its names.
C16_InvalidModuleContributesNothing ==
    mpc = "ready" =>
        \A i \in DOMAIN directory :
            LET e == directory[i]
            IN  /\ IsInvalidModule(e) =>
                       SchemasFrom(e) = {} /\ FunctionsFrom(e) = {}
                /\ IsValidModule(e) =>
                       /\ \A k \in DOMAIN e.TOOL_SCHEMAS :
                              InSeq(e.TOOL_SCHEMAS[k], loaded_tools_schemas)
                       /\ DOMAIN e.TOOL_MAP \subseteq DOMAIN loaded_tool_functions

\* C17: after the build a tool name occurs at most once in the schema list
\* and the callable registered under it comes from the module of the
\* schema that was kept.
C17_DuplicateNamesHaveOnePolicy ==
    mpc = "ready" =>
        /\ \A i, j \in DOMAIN loaded_tools_schemas :
               loaded_tools_schemas[i].name = loaded_tools_schemas[j].name => i = j
        /\ \A j \in DOMAIN loaded_tools_schemas :
               loaded_tools_schemas[j].name \in DOMAIN loaded_tool_functions =>
                   loaded_tool_functions[loaded_tools_schemas[j].name]
                       = loaded_tools_schemas[j].module

\* C18: when the import of a module raises, the build still returns, and
\* the registry holds every schema and every name of every valid module,
\* wherever the failing module stands in the listing; a name's callable is
\* the module's own unless a module listed later declares the name too.
C18_FailingImportIsContained ==
    (mpc = "ready" /\ \E i \in DOMAIN directory : directory[i].raises) =>
        \A i \in DOMAIN directory :
            LET e == directory[i]
            IN  IsValidModule(e) =>
                    /\ \A k \in DOMAIN e.TOOL_SCHEMAS :
                           InSeq(e.TOOL_SCHEMAS[k], loaded_tools_schemas)
                    /\ \A k \in DOMAIN e.TOOL_MAP :
                           /\ k \in DOMAIN loaded_tool_functions
                           /\ \/ loaded_tool_functions[k] = e.name
                              \/ \E j \in DOMAIN directory :
                                     j > i /\ k \in DOMAIN directory[j].TOOL_MAP

\* the build returned a registry with the entries of a valid module listed
\* before the failing module and of one listed after it
C18_Witness ==
    /\ mpc = "ready" /\ Len(directory) = 3
    /\ IsValidModule(directory[1]) /\ directory[2].raises
    /\ IsValidModule(directory[3])
    /\ SchemasFrom(directory[1]) # {} /\ SchemasFrom(directory[3]) # {}
    /\ FunctionsFrom(directory[1]) # {} /\ FunctionsFrom(directory[3]) # {}

\* C19: an entry that is no directory, has an internal name or is the
\* template contributes nothing to the registry, and the modules the
\* discovery scan reports are the modules the build tries to load.
C19_SkippedEntriesStayOut ==
    mpc = "ready" =>
        /\ \A i \in DOMAIN directory :
               IsSkipped(directory[i]) =>
                   /\ SchemasFrom(directory[i]) = {}
                   /\ FunctionsFrom(directory[i]) = {}
        /\ { tool_modules_to_load[j] : j \in DOMAIN tool_modules_to_load }
              = { directory[i].name \o ".core" :
                    i \in { n \in DOMAIN directory : IsCandidate(directory[n]) } }

(***************************************************************************)
(* Unknown tools.                                                          *)
(***************************************************************************)
IsUnknownToolCall(ev) ==
    /\ ev.kind = "tool" /\ ev.call.name # "speak_text"
    /\ ev.call.name \notin DOMAIN ev.functions
    /\ JsonLoads(ev.call.arguments).ok

IsPrefix(s, t) == Len(s) <= Len(t) /\ \A i \in DOMAIN s : s[i] = t[i]

\* the message list given to a model call has the message list of every
\* earlier model call of the request as a prefix
SentListsGrow ==
    \A i, j \in DOMAIN events :
        (events[i].kind = "model" /\ events[j].kind = "model" /\ i < j) =>
            /\ IsPrefix(events[i].messages, events[j].messages)
            /\ Len(events[i].messages) < Len(events[j].messages)
            /\ IsPrefix(events[j].messages, messages)

\* C21: the conversation state of a request is append-only: the message
\* list given to a model call has the list of every earlier model call as
\* a prefix, and no step of the run removes, reorders or modifies a
\* message of the list (every step leaves the list a prefix of the new one).
C21_HistoryIsAppendOnly ==
    /\ []SentListsGrow
    /\ [][pc # "idle" => IsPrefix(messages, messages')]_vars

\* a second model call was made after a batch of two tool calls
C21_Witness ==
    \E i, j \in DOMAIN events :
        /\ events[i].kind = "model" /\ events[j].kind = "model" /\ i < j
        /\ Len(events[j].messages) >= Len(events[i].messages) + 3
(***************************************************************************)
(* The objects of the registry.                                            *)
(***************************************************************************)
\* C23: reload_tools builds the new registry in a list and a dict that no
\* global was ever bound to, and every list and dict a global was bound
\* to, before or after a reload, is still what it was when it was
\* published.
C23_PublishedSnapshotsAreNeverModified ==
    /\ \A r \in DOMAIN published.schemas : lists[r] = published.schemas[r]
    /\ \A r \in DOMAIN published.functions : dicts[r] = published.functions[r]
    /\ build.pc = "loop" =>
           /\ build.all_schemas \notin DOMAIN published.schemas
           /\ build.all_tool_maps \notin DOMAIN published.functions

\* a reload has rebound both globals to new objects and the objects of the
\* import still hold the old registry, which differs from the new one
C23_Witness ==
    /\ build.pc = "idle" /\ schemasRef = 2 /\ functionsRef = 2
    /\ lists[1] = published.schemas[1] /\ lists[1] # lists[2] /\ lists[1] # <<>>
    /\ dicts[1] = published.functions[1] /\ dicts[1] # dicts[2]
(***************************************************************************)
(* Two concurrent requests.                                                *)
(***************************************************************************)
\* C22: two requests that run at the same time hold two different message
\* lists, and no message one of them appended (its user message, its
\* tool-call turns, its tool results) is in a list the other one gave to
\* the model.
C22_RequestsOwnTheirMessages ==
    \A r, q \in Requests :
        r # q =>
            /\ (req[r].messages # 0 /\ req[q].messages # 0) =>
                   req[r].messages # req[q].messages
            /\ \A k \in DOMAIN req[r].sent :
                   \A n \in DOMAIN req[q].appended :
                       ~InSeq(req[q].appended[n], req[r].sent[k])

\* both requests called the model again after the other one had appended
\* its user message, a tool-call turn and a tool result
C22_Witness ==
    \A r \in Requests :
        /\ Len(req[r].sent) = 2 /\ Len(req[r].appended) = 3
        /\ req[r].pc = "done"
(***************************************************************************)
(* The application layer.                                                  *)
(***************************************************************************)
\* the messages of a list that come from the user and carry the text
UserOccurrences(text, list) ==
    Cardinality({ i \in DOMAIN list : list[i].role = "user" /\ list[i].content = text })

\* C24: in the application flow the new user input appears exactly once
\* in the message list of the first model call: the list has one user
\* message with the text more than the session had before the input.
C24_NewInputAppearsOnce ==
    app.first_call # <<>> =>
        UserOccurrences(app.text, app.first_call)
            = UserOccurrences(app.text,
                  get_conversation_history(SubSeq(session, 1, app.prior))) + 1

\* the stored messages that get_conversation_history looks at
Turns(stored) == SelectSeq(stored, LAMBDA m : m.role \in { "user", "assistant" })

\* C25: after add_user_message(c) the history built for the model ends
\* with an entry of role user whose content is c, never with a null or
\* missing content.
C25_HistoryKeepsStoredContent ==
    (app.flow = "main" /\ app.pc = "idle" /\ app.inputs >= 1) =>
        LET h == get_conversation_history(session)
        IN  /\ h # << >>
            /\ h[Len(h)].role = "user"
            /\ h[Len(h)].content = app.text

\* the assistant messages added to the session since the input arrived
AssistantAdded ==
    Cardinality({ i \in (app.prior + 1)..Len(session) : session[i].role = "assistant" })

\* C26: a user input that AIAgentApp._process_user_input has handled was
\* answered, and exactly one assistant message was added to the session
\* for it.
C26_OneAssistantMessagePerAnswer ==
    (app.flow = "main" /\ app.pc = "idle" /\ app.inputs >= 1 /\ Strip(app.text) # "") =>
        /\ app.error = ""
        /\ AssistantAdded = 1

\* C33: add_message appends a message that has the keys role and content
\* to the end of the session's list, leaves the earlier messages as they
\* were, and does not raise.
C33_AddMessageAppendsValidMessages ==
    (app.flow = "main" /\ app.pc = "idle" /\ app.inputs >= 1) =>
        /\ app.error = ""
        /\ session = Append(SubSeq(session, 1, app.prior),
                            StoredMessage("user", app.text, None, None))

AIResponseKeys ==
    { "status", "message", "audio_content", "text_content", "response_type",
      "voice_text", "detailed_text" }
IsAIResponse(r) ==
    /\ "status" \in DOMAIN r /\ DOMAIN r \subseteq AIResponseKeys
    /\ r.status \in { "success", "error" }
    /\ r.status = "error" => "message" \in DOMAIN r

\* C30: process_user_input never raises: once it is over the caller holds
\* an AIResponse, for a blank input, for an orchestrator result and for an
\* exception alike, and current_process is None; while it runs the status
\* is the one it set.
C30_ServiceReturnsAndClearsTheStatus ==
    app.flow = "service" =>
        /\ app.pc \in { "idle", "service" } => current_process = NoProcess
        /\ (app.pc = "idle" /\ app.inputs >= 1) => IsAIResponse(app.returned)
        /\ app.pc \in { "prepare", "call", "process", "finish", "return" } =>
               current_process # NoProcess

\* process_user_input caught an exception, returned the error response and
\* the status is cleared
C30_Witness ==
    /\ app.flow = "service" /\ app.pc = "idle"
    /\ app.returned = ServiceError(NameErrorText)
    /\ current_process = NoProcess

(***************************************************************************)
(* Continuous voice recognition.                                           *)
(***************************************************************************)
\* C27: when _handle_voice_recognition runs with the flag active and no
\* listener thread alive, the call has started a listener thread by the
\* time it is over.
C27_ActiveFlagGetsAListener ==
    (script.pc = "idle" /\ script.by = "handle" /\ script.owed) => script.spawned

\* C28: whatever the order of the start and stop calls and of the
\* listeners' steps, at most one listener thread is alive.
C28_AtMostOneListener ==
    Cardinality({ t \in Threads : Alive(t) }) <= 1

\* C29: a listener that is alive while the flag is False exits unless the
\* flag is set again, and the step in which a listener thread ends leaves
\* the flag False.
C29_StoppedListenerExitsWithTheFlagCleared ==
    /\ \A t \in Threads :
           [](Alive(t) /\ ~voice_recognition_active
                  => <>(~Alive(t) \/ voice_recognition_active))
    /\ [][\A t \in Threads :
             (Alive(t) /\ listeners'[t] = "dead") => ~voice_recognition_active']_vars

\* stop cleared the flag, no start followed, and the listener has exited
C29_Witness ==
    /\ script.cleared /\ script.pc = "idle"
    /\ ~voice_recognition_active
    /\ NoneAlive /\ \E t \in Threads : listeners[t] = "dead"
(***************************************************************************)
(* The empty command and the caller's history.                             *)
(***************************************************************************)
\* the request was made with an empty command text: its start event holds
\* no command
IsEmptyRequest ==
    events # <<>> /\ events[1].kind = "start" /\ events[1].value = None

\* C31: a request with an empty command text is over at once with a status
\* "error" outcome: the model was not called, no tool call was handled (the
\* two places where the registry is read) and no message list was built.
C31_EmptyCommandEndsAtOnce ==
    IsEmptyRequest =>
        /\ pc = "done" /\ result.status = "error"
        /\ modelCalls = 0 /\ issued = 0
        /\ \A i \in DOMAIN events : events[i].kind \notin { "model", "tool" }
        /\ messages = <<>>

\* an empty request returned while a reload had built a new registry
C31_Witness ==
    IsEmptyRequest /\ pc = "done" /\ reloads >= 1
\* C32: the list the caller passed as conversation_history holds, at every
\* moment of the request and after it on every path, the messages it held
\* when it was passed, and it is not the list the request works on.
C32_CallerHistoryIsNotModified ==
    \A r \in Requests :
        req[r].history # 0 =>
            /\ msgLists[req[r].history] = req[r].given
            /\ req[r].messages # req[r].history

\* a request that appended a tool-call turn and a tool message to its
\* list ended with an error
C32_Witness ==
    \E r \in Requests :
        /\ req[r].pc = "done" /\ req[r].result.status = "error"
        /\ Len(req[r].appended) >= 2
        /\ req[r].given # <<>>

(***************************************************************************)
(* The session state.                                                      *)
(***************************************************************************)
SessionKeys ==
    { "messages", "text_input", "voice_recognition_active",
      "initial_greeting_played", "current_process", "chatbot_uploaded_file",
      "voice_thread", "voice_status_placeholder" }

\* the state of a session right after its first initialisation at time t
FreshState(t) ==
    [messages |-> << [role |-> "system", content |-> SystemPrompt, timestamp |-> t],
                     [role |-> "assistant", content |-> Greeting, timestamp |-> t] >>,
     text_input |-> "",
     voice_recognition_active |-> FALSE,
     initial_greeting_played |-> FALSE,
     current_process |-> None,
     chatbot_uploaded_file |-> None,
     voice_thread |-> None,
     voice_status_placeholder |-> None]

\* C34: constructing a SessionManager on a session that has its keys
\* leaves the messages and every other key as they were, and after
\* clear_session the state is the freshly initialised one, its messages
\* the system prompt and the greeting.
C34_InitialisationIsIdempotent ==
    /\ (last.op = "construct" /\ SessionKeys \subseteq DOMAIN last.before) =>
           session_state = last.before
    /\ last.op = "clear_session" => session_state = FreshState(last.at)

\* a SessionManager was constructed on a session whose messages and text
\* input had changed since the first initialisation
C34_Witness ==
    /\ last.op = "construct"
    /\ SessionKeys \subseteq DOMAIN last.before
    /\ last.before.messages = << >>
    /\ last.before.text_input = "hello"
    /\ last.at > 0

(***************************************************************************)
(* planning_tool's check of its own interface.                             *)
(***************************************************************************)
\* the function names TOOL_SCHEMAS declares
DeclaredNames ==
    { TOOL_SCHEMAS[i].function.name :
        i \in { j \in DOMAIN TOOL_SCHEMAS :
                  /\ "function" \in DOMAIN TOOL_SCHEMAS[j]
                  /\ "name" \in DOMAIN TOOL_SCHEMAS[j].function } }

InterfaceMatches ==
    /\ DeclaredNames \subseteq DOMAIN TOOL_MAP
    /\ DOMAIN TOOL_MAP \subseteq DeclaredNames
    /\ \A name \in DOMAIN TOOL_MAP : TOOL_MAP[name] = "function"

EveryFunctionIsNamed ==
    \A i \in DOMAIN TOOL_SCHEMAS :
        "function" \in DOMAIN TOOL_SCHEMAS[i] => "name" \in DOMAIN TOOL_SCHEMAS[i].function

\* C35: validate_tool_interface returns True exactly when every declared
\* function name is a key of TOOL_MAP, every key of TOOL_MAP is a declared
\* name and every value of TOOL_MAP is callable; it never raises.
C35_ValidatesExactlyTheInterface ==
    validated # << >> =>
        /\ validated[1] \in BOOLEAN
        /\ validated[1] = InterfaceMatches

\* C35 as the code has it: the result is True exactly when, besides, every
\* schema with a function entry gives the function a name; it never raises.
C35_ValidatesTheInterfaceOfNamedFunctions ==
    validated # << >> =>
        /\ validated[1] \in BOOLEAN
        /\ validated[1] = (EveryFunctionIsNamed /\ InterfaceMatches)

\* names and keys match and the values are callable, one schema's
\* function has no name, and the result is False
C35_Witness ==
    /\ validated = << FALSE >>
    /\ InterfaceMatches
    /\ ~EveryFunctionIsNamed
    /\ DOMAIN TOOL_MAP # {}

====
